---- MODULE Spec2Model ----
(***************************************************************************)
(* Sequential AC/DC power flow (PyACDC, runacdcpf.py and its helpers).     *)
(*                                                                         *)
(* Spec     : the orchestrator of runacdcpf from the slack/droop violation *)
(*            check to the return, on the internal DC bus numbering.       *)
(*            Numerical results of the solvers (runpf, convlim,            *)
(*            dcnetworkpf, calcslackdroop) are drawn from small sets.      *)
(* SpecOut  : the outage filters at the start of runacdcpf, on tables      *)
(*            whose status flags take values inside and outside {0,1}.     *)
(* SpecNum  : the path of the bus numbers and of the table rows through    *)
(*            runacdcpf: outage filters, external to internal numbering,   *)
(*            sorting, solve, and the way back.                            *)
(***************************************************************************)
EXTENDS Integers, Sequences, FiniteSets, TLC

\* ------------------------------------------------------------------ bounds
\* number of internal DC buses of the networks that are enumerated
NBusDC == 2
\* value of the option ITMAXACDC (macdcopt[1]) in the enumerated runs
itmaxacdc == 1
\* active powers take the values 0..MaxP (in units of the tolerance)
MaxP == 1
\* size of a reactive power correction reported by convlim, 0..MaxDev
MaxDev == 1

\* value of the option TOLACDC (macdcopt[0]), in the unit of the powers
tolacdc == 1

BusesDC == 1..NBusDC
PVals == 0..MaxP

\* ------------------------------------------------------------------ state
VARIABLES
    pc,          \* position in runacdcpf
    macdcopt,    \* options record: LIMAC, MULTSLACK
    busdc,       \* internal DC bus k -> [GRIDDC]
    convdc,      \* internal DC bus k -> [CONV_BUS, CONVTYPE_DC, CONVTYPE_AC]
    slackdc,     \* set of internal DC slack buses
    droopdc,     \* set of internal DC droop buses
    slackdroopdc,\* union used by the slack/droop loss iteration
    noslackbdc,  \* buses solved by the DC Newton iteration
    it,          \* outer iteration counter
    converged,   \* outer convergence flag
    Ps,          \* grid side active power per DC bus (real part of Ss)
    Ps_old,      \* copy of Ps taken after the AC solve
    ii,          \* DC grid processed by the limit check
    limviol,     \* violation code per DC bus of this iteration
    SsL,         \* corrected point per DC bus of this iteration: [P, dQ]
    dSiimaxi,    \* converter whose setpoint was replaced for grid ii-1 (0: none)
    dcconverged, \* dcnetworkpf converged within its cap in this iteration
    convergedslackdroop, \* slack/droop loss loop converged within its cap
    cflag,       \* last calcslackdroop call converged within its cap
    casein,      \* the six tables as the caller passed them
    tab,         \* working tables bus, gen, branch, busdc, convdc, branchdc
    outg,        \* outage bookkeeping (conv0busi, conv1i, conv0, ..., gon, goff, gen0)
    i2e,         \* renumbering bookkeeping (i2edcpmt, i2edc, i2eac, acdmbus, i2ebus, ...)
    caller,      \* the arrays held by the case dicts of the caller
    acnet,       \* AC side of the converter buses: bus, busVSC (bus types), gdmbus, genPQ
    cl           \* a function called on its own: its arguments, locals and results

iterVars == <<macdcopt, busdc, convdc, slackdc, droopdc, slackdroopdc,
              noslackbdc, it, converged, Ps, Ps_old, ii, limviol, SsL,
              dSiimaxi, dcconverged, convergedslackdroop, cflag, acnet, cl>>

loopVars == <<pc, iterVars>>

tblVars == <<casein, tab, outg, i2e, caller>>

vars == <<loopVars, tblVars>>

\* ------------------------------------------------------------- helpers
Max(S) == CHOOSE x \in S : \A y \in S : y <= x

Abs(x) == IF x < 0 THEN -x ELSE x

\* np.argmax: first index holding the largest entry (1-based here)
argmax(v) == CHOOSE k \in DOMAIN v :
                /\ \A j \in DOMAIN v : v[j] <= v[k]
                /\ \A j \in DOMAIN v : j < k => v[j] < v[k]

ngriddc(bd) == Max({bd[k].GRIDDC : k \in DOMAIN bd})

\* rows of the expanded converter matrix; a DC bus without converter is a zero row
ZeroConv == [CONV_BUS |-> 0, CONVTYPE_DC |-> "none", CONVTYPE_AC |-> "none",
             QCONV |-> 0]

\* every converter of the input has a reactive setpoint of one unit
ConvRows(k) == {ZeroConv} \cup
               [CONV_BUS : {k}, CONVTYPE_DC : {"slack", "droop", "noslack"},
                CONVTYPE_AC : {"PV", "PQ"}, QCONV : {1}]

\* types of an AC bus in the bus table
BusTypes == {"PQ", "PV", "REF"}

\* grid ids as ext2intdc leaves them: 1..N without gaps, ascending in row order
GridSeqs == {g \in [BusesDC -> BusesDC] :
                /\ g[1] = 1
                /\ \A k \in BusesDC : k > 1 => g[k] \in {g[k-1], g[k-1] + 1}}

\* ------------------------------------------------------------- functions
\* variant that counts slack converters only
gridviolslackonly(bd, cd) ==
    (1..ngriddc(bd)) \ {bd[k].GRIDDC : k \in {j \in DOMAIN cd :
                                                cd[j].CONVTYPE_DC = "slack"}}

\* runacdcpf.py:162-168  grids 1..N without a slack or droop converter
gridviol(bd, cd) ==
    LET slack == {k \in DOMAIN cd : cd[k].CONVTYPE_DC = "slack"}
        droop == {k \in DOMAIN cd : cd[k].CONVTYPE_DC = "droop"}
    IN  (1..ngriddc(bd)) \ {bd[k].GRIDDC : k \in slack \cup droop}

\* variant that keeps the last slack converter of every grid
removemultslackkeepslast(bd, cd, multslack) ==
    IF multslack # 0 THEN cd
    ELSE [k \in DOMAIN cd |->
            IF /\ cd[k].CONVTYPE_DC = "slack"
               /\ \E j \in DOMAIN cd : /\ j > k
                                       /\ bd[j].GRIDDC = bd[k].GRIDDC
                                       /\ cd[j].CONVTYPE_DC = "slack"
            THEN [cd[k] EXCEPT !.CONVTYPE_DC = "noslack"]
            ELSE cd[k]]

\* runacdcpf.py:175-186  keep the first slack converter of every grid
removemultslack(bd, cd, multslack) ==
    IF multslack # 0 THEN cd
    ELSE [k \in DOMAIN cd |->
            IF /\ cd[k].CONVTYPE_DC = "slack"
               /\ \E j \in DOMAIN cd : /\ j < k
                                       /\ bd[j].GRIDDC = bd[k].GRIDDC
                                       /\ cd[j].CONVTYPE_DC = "slack"
            THEN [cd[k] EXCEPT !.CONVTYPE_DC = "noslack"]
            ELSE cd[k]]

\* variant that looks at PV buses only
removevcontrolpvonly(cd, bustype) ==
    LET vconfl == {k \in DOMAIN cd : /\ cd[k].CONVTYPE_AC = "PV"
                                     /\ bustype[k] = "PV"}
    IN  [k \in DOMAIN cd |->
            [cd[k] EXCEPT !.CONVTYPE_AC = IF k \in vconfl THEN "PQ" ELSE @,
                          !.QCONV = IF k \notin vconfl /\ cd[k].CONVTYPE_AC = "PQ"
                                    THEN @ ELSE 0]]

\* runacdcpf.py:192-202  a PV converter on a PV or REF bus becomes a PQ
\* converter without reactive injection; row k of bus is the AC bus of the
\* converter of row k; a converter that is not PQ afterwards has QCONV 0
removevcontrol(cd, bustype) ==
    LET vconfl == {k \in DOMAIN cd : /\ cd[k].CONVTYPE_AC = "PV"
                                     /\ bustype[k] \in {"PV", "REF"}}
    IN  [k \in DOMAIN cd |->
            [cd[k] EXCEPT !.CONVTYPE_AC = IF k \in vconfl THEN "PQ" ELSE @,
                          !.QCONV = IF k \notin vconfl /\ cd[k].CONVTYPE_AC = "PQ"
                                    THEN @ ELSE 0]]

\* runacdcpf.py:209-232  bus types of busVSC, buses that get a dummy generator
\* (gdmbus) and PQ buses whose own generator holds the voltage (genPQ)
initacnetwork(cd, bustype, genbus) ==
    LET pvc == {k \in DOMAIN cd : bustype[k] = "PQ" /\ cd[k].CONVTYPE_AC = "PV"}
    IN  [busVSC |-> [k \in DOMAIN cd |-> IF k \in pvc THEN "PV" ELSE bustype[k]],
         gdmbus |-> pvc \ genbus,
         genPQ |-> pvc \cap genbus]

\* runacdcpf.py:308  test of the main while loop
loopcontinues(conv, i) == ~conv /\ i <= itmaxacdc

\* variant that runs the limit check whatever LIMAC is
afterconvmodelalways(limac) == "limcheck"

\* runacdcpf.py:391  stage that follows the converter calculations
afterconvmodel(limac) == IF limac = 1 THEN "limcheck" ELSE "losscalc"

\* runacdcpf.py:397-404  converters of grid g that are passed to convlim
cdcii(g) ==
    LET all == {k \in BusesDC : busdc[k].GRIDDC = g /\ convdc[k].CONV_BUS # 0}
        noslack == all \ slackdc
    IN  {k \in noslack : k - 1 # 0}

\* convlim.py:213-267  results convlim can return for a converter at power p:
\* code 0 leaves the point, code 1 moves Q only, code 2 moves to a boundary
\* point (Pmin,QPmin) or (Pmax,QPmax); a move below epslim is reported as 0
convlim(p) ==
    {[viol |-> 0, P |-> p, dQ |-> 0]} \cup
    {[viol |-> 1, P |-> p, dQ |-> d] : d \in 1..MaxDev} \cup
    {r \in [viol : {2}, P : PVals, dQ : 0..MaxDev] : r.P # p \/ r.dQ > 0}

\* runacdcpf.py:414-444  converter of grid g whose setpoint is replaced (0: none)
mostviolating(g, lv, sl) ==
    LET limviolii == [k \in BusesDC |-> IF busdc[k].GRIDDC = g THEN lv[k] ELSE 0]
        mask(k, code) == /\ busdc[k].GRIDDC = g
                         /\ convdc[k].CONVTYPE_DC # "slack"
                         /\ limviolii[k] = code
        dP == [k \in BusesDC |-> IF mask(k, 2) THEN Abs(sl[k].P - Ps[k]) ELSE 0]
        dQ == [k \in BusesDC |-> IF mask(k, 1) THEN sl[k].dQ ELSE 0]
    IN  IF \E k \in BusesDC : limviolii[k] = 2 THEN argmax(dP)
        ELSE IF \E k \in BusesDC : limviolii[k] = 1 THEN argmax(dQ)
        ELSE 0

\* variant that also gives a PQ converter voltage control
downgradetoggles(row) ==
    [row EXCEPT !.CONVTYPE_AC = IF @ = "PV" THEN "PQ"
                                ELSE IF @ = "PQ" THEN "PV" ELSE @,
                !.CONVTYPE_DC = IF @ = "droop" THEN "noslack" ELSE @]

\* variant that removes the voltage control only
downgradeaconly(row) ==
    [row EXCEPT !.CONVTYPE_AC = IF @ = "PV" THEN "PQ" ELSE @]

\* runacdcpf.py:446-447, 465-466  control modes of the converter whose
\* setpoint was replaced
downgrade(row) ==
    [row EXCEPT !.CONVTYPE_AC = IF @ = "PV" THEN "PQ" ELSE @,
                !.CONVTYPE_DC = IF @ = "droop" THEN "noslack" ELSE @]

\* variant in which a solve that hits its cap raises
dcnetworkpfraises(conv) == conv

\* dcnetworkpf.py:132-147  a solve that hits its cap prints and returns
dcnetworkpfreturns(conv) == TRUE

\* variant that is satisfied as soon as one DC grid has settled
convergencetestpergrid(old, new) ==
    \E g \in {busdc[k].GRIDDC : k \in DOMAIN old} :
        \A k \in DOMAIN old :
            busdc[k].GRIDDC = g => Abs(old[k] - new[k]) < tolacdc

\* runacdcpf.py:541  convergence test of the outer iteration
convergencetest(old, new) ==
    Max({Abs(old[k] - new[k]) : k \in DOMAIN old}) < tolacdc

\* ------------------------------------------------------- table helpers
Min(S) == CHOOSE x \in S : \A y \in S : x <= y

\* ascending sequence of a set of numbers (np.where(...)[0], np.setdiff1d)
RECURSIVE ascending(_)
ascending(S) == IF S = {} THEN << >>
                ELSE <<Min(S)>> \o ascending(S \ {Min(S)})

\* tbl[idx, :]
rows(tbl, idx) == [j \in 1..Len(idx) |-> tbl[idx[j]]]

Perms(n) == {p \in [1..n -> 1..n] : \A i, j \in 1..n : p[i] = p[j] => i = j}

\* np.argsort with the default kind: an ordering permutation; the order of
\* rows with equal keys is not fixed
argsort(keys) ==
    {p \in Perms(Len(keys)) :
        \A i, j \in 1..Len(keys) : i < j => keys[p[i]] <= keys[p[j]]}

\* variant that reads the rows at p instead of writing them there
assignrowsgather(tbl, p) == [k \in 1..Len(tbl) |-> tbl[p[k]]]

\* tbl[p, :] = tbl.copy()  for a permutation p
assignrows(tbl, p) ==
    [k \in 1..Len(tbl) |-> tbl[CHOOSE i \in 1..Len(p) : p[i] = k]]

\* external_to_internal[x] of ext2intdc/ext2intac: position of x, 0 if absent
e2i(i2ext, x) ==
    IF \E k \in 1..Len(i2ext) : i2ext[k] = x
    THEN Max({k \in 1..Len(i2ext) : i2ext[k] = x})
    ELSE 0

column(tbl, f) == [i \in 1..Len(tbl) |-> tbl[i][f]]

\* ------------------------------------------------------- outage filters
\* variant that leaves the reactive power of a converter in outage
resetoutageponly(row) == [row EXCEPT !.PCONV = 0]

\* convout.py:57-58  powers of a converter in outage are reset
resetoutage(row) == [row EXCEPT !.PCONV = 0, !.QCONV = 0]

\* convout.py:61-72  record and remove the AC connection of outage converters
RECURSIVE convoutscan(_, _, _, _)
convoutscan(bd, conv0, i, info) ==
    IF i > Len(conv0) THEN [busdc |-> bd, conv0busi |-> info]
    ELSE LET hits == {j \in 1..Len(bd) : bd[j].BUSDC_I = conv0[i].CONV_BUS}
         IN  IF hits = {} THEN convoutscan(bd, conv0, i + 1, info)
             ELSE convoutscan([bd EXCEPT ![Min(hits)].BUSAC_I = 0], conv0, i + 1,
                              Append(info, <<Min(hits), bd[Min(hits)].BUSAC_I>>))

\* convout.py:44-81
convout(bd, cd) ==
    LET conv0i == ascending({i \in 1..Len(cd) : cd[i].CONVSTATUS = 0})
        conv1i == ascending({i \in 1..Len(cd) : cd[i].CONVSTATUS = 1})
        conv0 == [j \in 1..Len(conv0i) |-> resetoutage(cd[conv0i[j]])]
        scan == convoutscan(bd, conv0, 1, << >>)
    IN  [err |-> \E i \in 1..Len(cd) : cd[i].CONVSTATUS # 0 /\ cd[i].CONVSTATUS # 1,
         busdc |-> scan.busdc, conv0busi |-> scan.conv0busi,
         conv1 |-> rows(cd, conv1i), conv1i |-> conv1i,
         conv0 |-> conv0, conv0i |-> conv0i]

\* brchdcout.py:32-44
brchdcout(brdc) ==
    LET brchdc0i == ascending({i \in 1..Len(brdc) : brdc[i].BRDC_STATUS = 0})
        brchdc1i == ascending({i \in 1..Len(brdc) : brdc[i].BRDC_STATUS = 1})
    IN  [err |-> \E i \in 1..Len(brdc) :
                    brdc[i].BRDC_STATUS # 0 /\ brdc[i].BRDC_STATUS # 1,
         brchdc1 |-> rows(brdc, brchdc1i), brchdc1i |-> brchdc1i,
         brchdc0 |-> rows(brdc, brchdc0i), brchdc0i |-> brchdc0i]

\* brchout.py:28-40
brchout(br) ==
    LET brch0i == ascending({i \in 1..Len(br) : br[i].BR_STATUS = 0})
        brch1i == ascending({i \in 1..Len(br) : br[i].BR_STATUS = 1})
    IN  [err |-> \E i \in 1..Len(br) : br[i].BR_STATUS # 0 /\ br[i].BR_STATUS # 1,
         brch1 |-> rows(br, brch1i), brch1i |-> brch1i,
         brch0 |-> rows(br, brch0i), brch0i |-> brch0i]

\* runacdcpf.py:128-131  generator outages; the status is not validated
genout(gen) ==
    LET gon == ascending({i \in 1..Len(gen) : gen[i].GEN_STATUS > 0})
        goff == ascending({i \in 1..Len(gen) : gen[i].GEN_STATUS = 0})
    IN  [gon |-> gon, goff |-> goff,
         gen0 |-> rows(gen, goff), gen |-> rows(gen, gon)]

\* ------------------------------------------------------- renumbering
\* ext2intdc.py:54-56  connected DC buses first, then the others
ext2intdcpmt(bd) ==
    ascending({i \in 1..Len(bd) : bd[i].BUSAC_I # 0}) \o
    ascending({i \in 1..Len(bd) : bd[i].BUSAC_I = 0})

\* ext2intdc.py:47-86  srt is the result of the argsort on the grid column
ext2intdc(bd, cd, brdc, srt) ==
    LET grids == {bd[i].GRIDDC : i \in 1..Len(bd)}
        pmt0 == ext2intdcpmt(bd)
        b2 == rows(rows(bd, pmt0), srt)
        i2edc == column(b2, "BUSDC_I")
    IN  [err |-> grids # 1..Cardinality(grids),
         i2edcpmt |-> rows(pmt0, srt),
         i2edc |-> i2edc,
         busdc |-> [k \in 1..Len(b2) |-> [b2[k] EXCEPT !.BUSDC_I = k]],
         convdc |-> [i \in 1..Len(cd) |->
                       [cd[i] EXCEPT !.CONV_BUS = e2i(i2edc, @)]],
         branchdc |-> [i \in 1..Len(brdc) |->
                         [brdc[i] EXCEPT !.F_BUSDC = e2i(i2edc, @),
                                         !.T_BUSDC = e2i(i2edc, @)]]]

\* ext2intac.py:55-96
ext2intac(bd, bus, gen, br) ==
    LET convi == ascending({i \in 1..Len(bd) : bd[i].BUSAC_I # 0})
        convbuses == rows(column(bd, "BUSAC_I"), convi)
        dummyi == ascending({i \in 1..Len(bd) : bd[i].BUSAC_I = 0})
        noconv == ascending({bus[i].BUS_I : i \in 1..Len(bus)} \
                            {convbuses[j] : j \in 1..Len(convbuses)})
        ndummy == Len(dummyi)
        dummybuses == SubSeq(noconv, 1, ndummy)
        nodummy == SubSeq(noconv, ndummy + 1, Len(noconv))
        withdummy == [k \in 1..Len(bd) |->
                        IF bd[k].BUSAC_I # 0 THEN bd[k].BUSAC_I
                        ELSE dummybuses[CHOOSE j \in 1..ndummy : dummyi[j] = k]]
        i2eac == [k \in 1..Len(bus) |->
                    IF k <= Len(bd) THEN withdummy[k] ELSE nodummy[k - Len(bd)]]
        err == \/ Cardinality({convbuses[j] : j \in 1..Len(convbuses)})
                      # Len(convbuses)
               \/ Len(bus) < Len(bd)
               \/ Len(noconv) < ndummy
    IN  IF err THEN [err |-> TRUE]
        ELSE [err |-> FALSE,
              i2eac |-> i2eac,
              acdmbus |-> dummyi,
              busdc |-> [k \in 1..Len(bd) |->
                           [bd[k] EXCEPT !.BUSAC_I = e2i(i2eac, withdummy[k])]],
              bus |-> [i \in 1..Len(bus) |->
                         [bus[i] EXCEPT !.BUS_I = e2i(i2eac, @)]],
              gen |-> [i \in 1..Len(gen) |->
                         [gen[i] EXCEPT !.GEN_BUS = e2i(i2eac, @)]],
              branch |-> [i \in 1..Len(br) |->
                            [br[i] EXCEPT !.F_BUS = e2i(i2eac, @),
                                          !.T_BUS = e2i(i2eac, @)]]]

\* variant that leaves the dummy AC buses in the DC bus table
int2extackeepsdummy(i2eac, acdum_i, bd, bus, gen, br) ==
    [busdc |-> [k \in 1..Len(bd) |-> [bd[k] EXCEPT !.BUSAC_I = i2eac[@]]],
     bus |-> [i \in 1..Len(bus) |-> [bus[i] EXCEPT !.BUS_I = i2eac[@]]],
     gen |-> [i \in 1..Len(gen) |-> [gen[i] EXCEPT !.GEN_BUS = i2eac[@]]],
     branch |-> [i \in 1..Len(br) |->
                   [br[i] EXCEPT !.F_BUS = i2eac[@], !.T_BUS = i2eac[@]]]]

\* int2extac.py:42-51
int2extac(i2eac, acdum_i, bd, bus, gen, br) ==
    [busdc |-> [k \in 1..Len(bd) |->
                  [bd[k] EXCEPT !.BUSAC_I =
                      IF \E j \in 1..Len(acdum_i) : acdum_i[j] = k
                      THEN 0 ELSE i2eac[@]]],
     bus |-> [i \in 1..Len(bus) |-> [bus[i] EXCEPT !.BUS_I = i2eac[@]]],
     gen |-> [i \in 1..Len(gen) |-> [gen[i] EXCEPT !.GEN_BUS = i2eac[@]]],
     branch |-> [i \in 1..Len(br) |->
                   [br[i] EXCEPT !.F_BUS = i2eac[@], !.T_BUS = i2eac[@]]]]

\* int2extdc.py:45-53
int2extdc(i2edcpmt, i2edc, bd, cd, brdc) ==
    [busdc |-> assignrows([k \in 1..Len(bd) |->
                             [bd[k] EXCEPT !.BUSDC_I = i2edc[@]]], i2edcpmt),
     convdc |-> [i \in 1..Len(cd) |-> [cd[i] EXCEPT !.CONV_BUS = i2edc[@]]],
     branchdc |-> [i \in 1..Len(brdc) |->
                     [brdc[i] EXCEPT !.F_BUSDC = i2edc[@], !.T_BUSDC = i2edc[@]]]]

\* variant that keeps the converter rows in their order, zero rows after them
expandconvinorder(cd, n) ==
    [k \in 1..n |->
        IF k <= Len(cd) THEN cd[k]
        ELSE [CONV_BUS |-> 0, CONVSTATUS |-> 0, PCONV |-> 0, QCONV |-> 0]]

\* runacdcpf.py:155-158  one converter row per DC bus, zero rows elsewhere
expandconv(cd, n) ==
    [k \in 1..n |->
        IF \E i \in 1..Len(cd) : cd[i].CONV_BUS = k
        THEN cd[Max({i \in 1..Len(cd) : cd[i].CONV_BUS = k})]
        ELSE [CONV_BUS |-> 0, CONVSTATUS |-> 0, PCONV |-> 0, QCONV |-> 0]]

\* runacdcpf.py:161 and 599  rows of the expanded matrix that hold a converter
compressconv(cd1) ==
    rows(cd1, ascending({k \in 1..Len(cd1) : cd1[k].CONV_BUS # 0}))

\* runacdcpf.py:618-620, 625-627, 636-639, 649-652
\* A = zeros(len(idx0) + len(idx1)); A[idx0] = rows0; A[idx1] = rows1
includeoutages(idx0, rows0, idx1, rows1, zero) ==
    [k \in 1..(Len(idx0) + Len(idx1)) |->
        IF \E j \in 1..Len(idx1) : idx1[j] = k
        THEN rows1[CHOOSE j \in 1..Len(idx1) : idx1[j] = k]
        ELSE IF \E j \in 1..Len(idx0) : idx0[j] = k
        THEN rows0[CHOOSE j \in 1..Len(idx0) : idx0[j] = k]
        ELSE zero]

\* an index beyond the allocated rows, or a row count that does not match
\* the index list, makes the assignment raise
includefails(idx0, rows0, idx1, rows1) ==
    \/ \E j \in 1..Len(idx0) : idx0[j] > Len(idx0) + Len(idx1)
    \/ \E j \in 1..Len(idx1) : idx1[j] > Len(idx0) + Len(idx1)
    \/ Len(rows0) # Len(idx0)
    \/ Len(rows1) # Len(idx1)

\* runacdcpf.py:630-631  busdc[conv0busi[:, 0], BUSAC_I] = conv0busi[:, 1]
RECURSIVE restoreacbus(_, _, _)
restoreacbus(bd, info, i) ==
    IF i > Len(info) THEN bd
    ELSE restoreacbus([bd EXCEPT ![info[i][1]].BUSAC_I = info[i][2]], info, i + 1)

\* ------------------------------------------------------- table states
NoTables == [bus |-> << >>, gen |-> << >>, branch |-> << >>,
             busdc |-> << >>, convdc |-> << >>, branchdc |-> << >>]

NoOutages == [conv0busi |-> << >>, conv1i |-> << >>, conv0 |-> << >>,
              conv0i |-> << >>, brchdc1i |-> << >>, brchdc0 |-> << >>,
              brchdc0i |-> << >>, brch1i |-> << >>, brch0 |-> << >>,
              brch0i |-> << >>, gon |-> << >>, goff |-> << >>, gen0 |-> << >>]

NoNumbering == [i2edcpmt |-> << >>, i2edc |-> << >>, i2eac |-> << >>,
                acdmbus |-> << >>, i2ebus |-> << >>, i2egen |-> << >>,
                i2ebrch |-> << >>, i2ebusdc |-> << >>, i2econvdc |-> << >>,
                i2ebrchdc |-> << >>]

NoACNet == [bus |-> << >>, genbus |-> {}, busVSC |-> << >>, gdmbus |-> {},
            genPQ |-> {}]

NoCall == [called |-> 0]

\* the table variables in a run of the iteration model
TablesIdle ==
    /\ casein = NoTables
    /\ tab = NoTables
    /\ outg = NoOutages
    /\ i2e = NoNumbering
    /\ caller = NoTables

\* the iteration variables in a run of the table models
LoopIdle ==
    /\ macdcopt = [LIMAC |-> 0, MULTSLACK |-> 0]
    /\ busdc = << >>
    /\ convdc = << >>
    /\ slackdc = {}
    /\ droopdc = {}
    /\ slackdroopdc = {}
    /\ noslackbdc = {}
    /\ it = 0
    /\ converged = FALSE
    /\ Ps = << >>
    /\ Ps_old = << >>
    /\ ii = 0
    /\ limviol = << >>
    /\ SsL = << >>
    /\ dSiimaxi = 0
    /\ dcconverged = FALSE
    /\ convergedslackdroop = FALSE
    /\ cflag = TRUE
    /\ acnet = NoACNet
    /\ cl = NoCall

\* ---------------------------------------------------------------- Init
\* state of runacdcpf at line 160: tables renumbered, converter matrix expanded
Init ==
    /\ pc = "violcheck"
    /\ macdcopt \in [LIMAC : {0, 1}, MULTSLACK : {0, 1}]
    /\ \E g \in GridSeqs : busdc = [k \in BusesDC |-> [GRIDDC |-> g[k]]]
    /\ convdc \in {c \in [BusesDC -> UNION {ConvRows(k) : k \in BusesDC}] :
                     \A k \in BusesDC : c[k] \in ConvRows(k)}
    /\ slackdc = {}
    /\ droopdc = {}
    /\ slackdroopdc = {}
    /\ noslackbdc = {}
    /\ it = 0
    /\ converged = FALSE
    /\ Ps = [k \in BusesDC |-> 0]
    /\ Ps_old = [k \in BusesDC |-> 0]
    /\ ii = 0
    /\ limviol = [k \in BusesDC |-> 0]
    /\ SsL = [k \in BusesDC |-> [P |-> 0, dQ |-> 0]]
    /\ dSiimaxi = 0
    /\ dcconverged = FALSE
    /\ convergedslackdroop = FALSE
    /\ cflag = TRUE
    /\ acnet = [NoACNet EXCEPT !.bus = [k \in BusesDC |-> "PQ"]]
    /\ cl = NoCall
    /\ TablesIdle

\* -------------------------------------------------------------- actions
\* runacdcpf.py:160-172
ViolationCheck ==
    /\ pc = "violcheck"
    /\ slackdc' = {k \in BusesDC : convdc[k].CONVTYPE_DC = "slack"}
    /\ droopdc' = {k \in BusesDC : convdc[k].CONVTYPE_DC = "droop"}
    /\ pc' = IF gridviol(busdc, convdc) # {} THEN "error" ELSE "multslack"
    /\ UNCHANGED tblVars
    /\ UNCHANGED <<acnet, cl>>
    /\ UNCHANGED <<cflag, macdcopt, busdc, convdc, slackdroopdc, noslackbdc, it,
                   converged, Ps, Ps_old, ii, limviol, SsL, dSiimaxi,
                   dcconverged, convergedslackdroop>>

\* runacdcpf.py:174-189; it and converged have their initial values of lines
\* 304-305 from here on
RemoveMultSlack ==
    /\ pc = "multslack"
    /\ convdc' = removemultslack(busdc, convdc, macdcopt.MULTSLACK)
    /\ slackdc' = IF macdcopt.MULTSLACK = 0
                  THEN {k \in BusesDC : convdc'[k].CONVTYPE_DC = "slack"}
                  ELSE slackdc
    /\ slackdroopdc' = slackdc' \cup droopdc
    /\ noslackbdc' = BusesDC \ slackdc'
    /\ it' = 0
    /\ converged' = FALSE
    /\ pc' = "vcontrol"
    /\ UNCHANGED tblVars
    /\ UNCHANGED <<acnet, cl>>
    /\ UNCHANGED <<cflag, macdcopt, busdc, droopdc, Ps, Ps_old, ii, limviol, SsL,
                   dSiimaxi, dcconverged, convergedslackdroop>>

\* runacdcpf.py:191-205  converter and generator voltage control conflicts
RemoveVControl ==
    /\ pc = "vcontrol"
    /\ convdc' = removevcontrol(convdc, acnet.bus)
    /\ pc' = "acinit"
    /\ UNCHANGED tblVars
    /\ UNCHANGED <<acnet, cl>>
    /\ UNCHANGED <<cflag, macdcopt, busdc, slackdc, droopdc, slackdroopdc,
                   noslackbdc, it, converged, Ps, Ps_old, ii, limviol, SsL,
                   dSiimaxi, dcconverged, convergedslackdroop>>

\* runacdcpf.py:207-305  initialisation of the AC network and of the loop
InitACNetwork ==
    /\ pc = "acinit"
    /\ LET a == initacnetwork(convdc, acnet.bus, acnet.genbus)
       IN  acnet' = [acnet EXCEPT !.busVSC = a.busVSC, !.gdmbus = a.gdmbus,
                                  !.genPQ = a.genPQ]
    /\ pc' = "while"
    /\ UNCHANGED tblVars
    /\ UNCHANGED cl
    /\ UNCHANGED <<cflag, macdcopt, busdc, convdc, slackdc, droopdc,
                   slackdroopdc, noslackbdc, it, converged, Ps, Ps_old, ii,
                   limviol, SsL, dSiimaxi, dcconverged, convergedslackdroop>>

\* runacdcpf.py:308-309
While ==
    /\ pc = "while"
    /\ IF loopcontinues(converged, it)
       THEN /\ it' = it + 1
            /\ pc' = "acsolve"
       ELSE /\ it' = it
            /\ pc' = "post"
    /\ UNCHANGED tblVars
    /\ UNCHANGED <<acnet, cl>>
    /\ UNCHANGED <<cflag, macdcopt, busdc, convdc, slackdc, droopdc, slackdroopdc,
                   noslackbdc, converged, Ps, Ps_old, ii, limviol, SsL,
                   dSiimaxi, dcconverged, convergedslackdroop>>

\* runacdcpf.py:311-369  AC power flow of every zone; it changes Q only
ACSolve ==
    /\ pc = "acsolve"
    /\ pc' = "convmodel"
    /\ dcconverged' = FALSE
    /\ convergedslackdroop' = FALSE
    /\ UNCHANGED tblVars
    /\ UNCHANGED <<acnet, cl>>
    /\ UNCHANGED <<cflag, macdcopt, busdc, convdc, slackdc, droopdc, slackdroopdc,
                   noslackbdc, it, converged, Ps, Ps_old, ii, limviol, SsL,
                   dSiimaxi>>

\* runacdcpf.py:371-394
ConverterModel ==
    /\ pc = "convmodel"
    /\ Ps_old' = Ps
    /\ pc' = afterconvmodel(macdcopt.LIMAC)
    /\ ii' = IF macdcopt.LIMAC = 1 THEN 1 ELSE 0
    /\ limviol' = [k \in BusesDC |-> 0]
    /\ SsL' = [k \in BusesDC |-> [P |-> 0, dQ |-> 0]]
    /\ dSiimaxi' = 0
    /\ UNCHANGED tblVars
    /\ UNCHANGED <<acnet, cl>>
    /\ UNCHANGED <<cflag, macdcopt, busdc, convdc, slackdc, droopdc, slackdroopdc,
                   noslackbdc, it, converged, Ps, dcconverged,
                   convergedslackdroop>>

\* runacdcpf.py:396-488  limit check of DC grid ii
LimitCheck ==
    /\ pc = "limcheck"
    /\ \E res \in [cdcii(ii) -> UNION {convlim(p) : p \in PVals}] :
        /\ \A k \in cdcii(ii) : res[k] \in convlim(Ps[k])
        /\ limviol' = [k \in BusesDC |->
                          IF k \in cdcii(ii) THEN res[k].viol ELSE limviol[k]]
        /\ SsL' = [k \in BusesDC |->
                      IF k \in cdcii(ii) THEN [P |-> res[k].P, dQ |-> res[k].dQ]
                      ELSE SsL[k]]
    /\ dSiimaxi' = mostviolating(ii, limviol', SsL')
    /\ Ps' = IF dSiimaxi' # 0
             THEN [Ps EXCEPT ![dSiimaxi'] = SsL'[dSiimaxi'].P]
             ELSE Ps
    /\ convdc' = IF dSiimaxi' # 0
                 THEN [convdc EXCEPT ![dSiimaxi'] = downgrade(@)]
                 ELSE convdc
    /\ droopdc' = IF dSiimaxi' # 0 /\ convdc[dSiimaxi'].CONVTYPE_DC = "droop"
                  THEN droopdc \ {dSiimaxi'} ELSE droopdc
    /\ slackdroopdc' = IF dSiimaxi' # 0 /\ convdc[dSiimaxi'].CONVTYPE_DC = "droop"
                       THEN slackdroopdc \ {dSiimaxi'} ELSE slackdroopdc
    /\ acnet' = IF dSiimaxi' # 0 /\ convdc[dSiimaxi'].CONVTYPE_AC = "PV"
                THEN [acnet EXCEPT !.busVSC[dSiimaxi'] = "PQ",
                                   !.gdmbus = @ \ {dSiimaxi'},
                                   !.genPQ = @ \ {dSiimaxi'}]
                ELSE acnet
    /\ IF ii < ngriddc(busdc)
       THEN /\ ii' = ii + 1
            /\ pc' = "limcheck"
       ELSE /\ ii' = ii
            /\ pc' = "losscalc"
    /\ UNCHANGED tblVars
    /\ UNCHANGED cl
    /\ UNCHANGED <<cflag, macdcopt, busdc, slackdc, noslackbdc, it, converged, Ps_old,
                   dcconverged, convergedslackdroop>>

\* runacdcpf.py:490-492
LossCalc ==
    /\ pc = "losscalc"
    /\ pc' = "dcsolve"
    /\ UNCHANGED tblVars
    /\ UNCHANGED <<acnet, cl>>
    /\ UNCHANGED <<cflag, macdcopt, busdc, convdc, slackdc, droopdc, slackdroopdc,
                   noslackbdc, it, converged, Ps, Ps_old, ii, limviol, SsL,
                   dSiimaxi, dcconverged, convergedslackdroop>>

\* runacdcpf.py:494-502  DC network power flow
DCSolve ==
    /\ pc = "dcsolve"
    /\ \E c \in BOOLEAN :
        /\ dcconverged' = c
        /\ pc' = IF dcnetworkpfreturns(c) THEN "slackdroop" ELSE "error"
    /\ UNCHANGED tblVars
    /\ UNCHANGED <<acnet, cl>>
    /\ UNCHANGED <<cflag, macdcopt, busdc, convdc, slackdc, droopdc, slackdroopdc,
                   noslackbdc, it, converged, Ps, Ps_old, ii, limviol, SsL,
                   dSiimaxi, convergedslackdroop>>

\* runacdcpf.py:504-537  slack/droop bus loss iteration
SlackDroop ==
    /\ pc = "slackdroop"
    /\ IF slackdroopdc = {}
       THEN /\ convergedslackdroop' = FALSE
            /\ cflag' = cflag
            /\ Ps' = Ps
       ELSE /\ convergedslackdroop' \in BOOLEAN
            /\ cflag' \in BOOLEAN
            /\ \E new \in [slackdroopdc -> PVals] :
                 Ps' = [k \in BusesDC |->
                          IF k \in slackdroopdc THEN new[k] ELSE Ps[k]]
    /\ pc' = "convcheck"
    /\ UNCHANGED tblVars
    /\ UNCHANGED <<acnet, cl>>
    /\ UNCHANGED <<macdcopt, busdc, convdc, slackdc, droopdc, slackdroopdc,
                   noslackbdc, it, converged, Ps_old, ii, limviol, SsL,
                   dSiimaxi, dcconverged>>

\* runacdcpf.py:539-542
ConvergenceCheck ==
    /\ pc = "convcheck"
    /\ converged' = IF convergencetest(Ps_old, Ps) THEN TRUE ELSE converged
    /\ pc' = "while"
    /\ UNCHANGED tblVars
    /\ UNCHANGED <<acnet, cl>>
    /\ UNCHANGED <<cflag, macdcopt, busdc, convdc, slackdc, droopdc, slackdroopdc,
                   noslackbdc, it, Ps, Ps_old, ii, limviol, SsL, dSiimaxi,
                   dcconverged, convergedslackdroop>>

\* runacdcpf.py:544-676  post processing and return
PostProcess ==
    /\ pc = "post"
    /\ pc' = "done"
    /\ UNCHANGED tblVars
    /\ UNCHANGED <<acnet, cl>>
    /\ UNCHANGED <<cflag, macdcopt, busdc, convdc, slackdc, droopdc, slackdroopdc,
                   noslackbdc, it, converged, Ps, Ps_old, ii, limviol, SsL,
                   dSiimaxi, dcconverged, convergedslackdroop>>

Next ==
    \/ ViolationCheck
    \/ RemoveMultSlack
    \/ RemoveVControl
    \/ InitACNetwork
    \/ While
    \/ ACSolve
    \/ ConverterModel
    \/ LimitCheck
    \/ LossCalc
    \/ DCSolve
    \/ SlackDroop
    \/ ConvergenceCheck
    \/ PostProcess

Spec == Init /\ [][Next]_vars

\* ------------------------------------------------- properties of Spec
GridsDC == 1..ngriddc(busdc)

HasSlackOrDroop(g) ==
    \E k \in BusesDC : /\ busdc[k].GRIDDC = g
                       /\ convdc[k].CONVTYPE_DC \in {"slack", "droop"}

PsSettled == \A k \in BusesDC : Abs(Ps_old[k] - Ps[k]) < tolacdc

C2_AtMostItmaxIterations == it <= itmaxacdc

C4_ConvergedOnlyWhenGloballySettled ==
    [][/\ converged' /\ ~converged => pc = "convcheck" /\ PsSettled
       /\ pc = "convcheck" /\ PsSettled => converged'
       /\ converged => /\ converged'
                       /\ it' = it
                       /\ pc' \in {"post", "done"}]_vars

\* a run that returned converged before the iteration count was used up,
\* with a power that moved in an earlier iteration
C4_Witness ==
    /\ pc = "done"
    /\ converged
    /\ it = 2
    /\ ngriddc(busdc) = 2
    /\ \E k \in BusesDC : Ps[k] # 0

\* C5: the run aborts at the slack/droop check, before the first outer
\* iteration, exactly when some DC grid 1..N has no slack and no droop
\* converter in service
C5_AbortIffGridWithoutSlackDroop ==
    [][pc = "violcheck" =>
         /\ pc' = "error" <=> \E g \in GridsDC : ~HasSlackOrDroop(g)
         /\ pc' # "error" => pc' = "multslack"
         /\ it' = 0]_vars

\* an aborted run in which another grid had its slack converter
C5_Witness ==
    /\ pc = "error"
    /\ \E k \in BusesDC : convdc[k].CONVTYPE_DC = "slack"

\* a run that passed the check with a grid that only has a droop converter
C5_WitnessPass ==
    /\ pc = "multslack"
    /\ \E g \in GridsDC : \A k \in BusesDC :
          busdc[k].GRIDDC = g => convdc[k].CONVTYPE_DC # "slack"

\* C6: at the DC solve of every outer iteration every DC grid has a slack or
\* a droop converter
C6_GridKeepsSlackOrDroop ==
    pc = "dcsolve" => \A g \in GridsDC : HasSlackOrDroop(g)

\* ------------------------------------------------- table model actions
\* runacdcpf.py:116-117; busdc is still the array of the caller's dict
\* (loadcasedc.py:84-92 copies the dict, not its arrays), and convout.py:69
\* writes into it; every later stage works on arrays of its own
ConvOut ==
    /\ pc = "convout"
    /\ LET r == convout(tab.busdc, tab.convdc)
       IN  IF r.err
           THEN /\ pc' = "error"
                /\ UNCHANGED <<tab, outg, caller>>
           ELSE /\ pc' = "brchdcout"
                /\ tab' = [tab EXCEPT !.busdc = r.busdc, !.convdc = r.conv1]
                /\ outg' = [outg EXCEPT !.conv0busi = r.conv0busi,
                                        !.conv1i = r.conv1i,
                                        !.conv0 = r.conv0,
                                        !.conv0i = r.conv0i]
                /\ caller' = [caller EXCEPT !.busdc = r.busdc]
    /\ UNCHANGED <<casein, i2e, iterVars>>

\* runacdcpf.py:120-121
BrchdcOut ==
    /\ pc = "brchdcout"
    /\ LET r == brchdcout(tab.branchdc)
       IN  IF r.err
           THEN /\ pc' = "error"
                /\ UNCHANGED <<tab, outg>>
           ELSE /\ pc' = "brchout"
                /\ tab' = [tab EXCEPT !.branchdc = r.brchdc1]
                /\ outg' = [outg EXCEPT !.brchdc1i = r.brchdc1i,
                                        !.brchdc0 = r.brchdc0,
                                        !.brchdc0i = r.brchdc0i]
    /\ UNCHANGED <<caller, casein, i2e, iterVars>>

\* runacdcpf.py:124-125
BrchOut ==
    /\ pc = "brchout"
    /\ LET r == brchout(tab.branch)
       IN  IF r.err
           THEN /\ pc' = "error"
                /\ UNCHANGED <<tab, outg>>
           ELSE /\ pc' = "genout"
                /\ tab' = [tab EXCEPT !.branch = r.brch1]
                /\ outg' = [outg EXCEPT !.brch1i = r.brch1i,
                                        !.brch0 = r.brch0,
                                        !.brch0i = r.brch0i]
    /\ UNCHANGED <<caller, casein, i2e, iterVars>>

\* runacdcpf.py:128-131
GenOut ==
    /\ pc = "genout"
    /\ LET r == genout(tab.gen)
       IN  /\ tab' = [tab EXCEPT !.gen = r.gen]
           /\ outg' = [outg EXCEPT !.gon = r.gon, !.goff = r.goff,
                                   !.gen0 = r.gen0]
    /\ pc' = "ext2intdc"
    /\ UNCHANGED <<caller, casein, i2e, iterVars>>

\* runacdcpf.py:134
Ext2IntDC ==
    /\ pc = "ext2intdc"
    /\ \E srt \in argsort(column(rows(tab.busdc, ext2intdcpmt(tab.busdc)),
                                 "GRIDDC")) :
        LET r == ext2intdc(tab.busdc, tab.convdc, tab.branchdc, srt)
        IN  IF r.err
            THEN /\ pc' = "error"
                 /\ UNCHANGED <<tab, i2e>>
            ELSE /\ pc' = "ext2intac"
                 /\ tab' = [tab EXCEPT !.busdc = r.busdc, !.convdc = r.convdc,
                                       !.branchdc = r.branchdc]
                 /\ i2e' = [i2e EXCEPT !.i2edcpmt = r.i2edcpmt,
                                       !.i2edc = r.i2edc]
    /\ UNCHANGED <<caller, casein, outg, iterVars>>

\* runacdcpf.py:135
Ext2IntAC ==
    /\ pc = "ext2intac"
    /\ LET r == ext2intac(tab.busdc, tab.bus, tab.gen, tab.branch)
       IN  IF r.err
           THEN /\ pc' = "error"
                /\ UNCHANGED <<tab, i2e>>
           ELSE /\ pc' = "sort"
                /\ tab' = [tab EXCEPT !.busdc = r.busdc, !.bus = r.bus,
                                      !.gen = r.gen, !.branch = r.branch]
                /\ i2e' = [i2e EXCEPT !.i2eac = r.i2eac, !.acdmbus = r.acdmbus]
    /\ UNCHANGED <<caller, casein, outg, iterVars>>

\* runacdcpf.py:137-149  every table is sorted, then its argsort is taken
SortMatrices ==
    /\ pc = "sort"
    /\ \E pbus \in argsort(column(tab.bus, "BUS_I")),
          pgen \in argsort(column(tab.gen, "GEN_BUS")),
          pbrch \in argsort(column(tab.branch, "F_BUS")),
          pbusdc \in argsort(column(tab.busdc, "BUSDC_I")),
          pconvdc \in argsort(column(tab.convdc, "CONV_BUS")),
          pbrchdc \in argsort(column(tab.branchdc, "F_BUSDC")) :
        LET bus == rows(tab.bus, pbus)
            gen == rows(tab.gen, pgen)
            branch == rows(tab.branch, pbrch)
            bd == rows(tab.busdc, pbusdc)
            cd == rows(tab.convdc, pconvdc)
            brdc == rows(tab.branchdc, pbrchdc)
        IN  /\ tab' = [bus |-> bus, gen |-> gen, branch |-> branch,
                       busdc |-> bd, convdc |-> cd, branchdc |-> brdc]
            /\ \E i2ebus \in argsort(column(bus, "BUS_I")),
                  i2egen \in argsort(column(gen, "GEN_BUS")),
                  i2ebrch \in argsort(column(branch, "F_BUS")),
                  i2ebusdc \in argsort(column(bd, "BUSDC_I")),
                  i2econvdc \in argsort(column(cd, "CONV_BUS")),
                  i2ebrchdc \in argsort(column(brdc, "F_BUSDC")) :
                i2e' = [i2e EXCEPT !.i2ebus = i2ebus, !.i2egen = i2egen,
                                   !.i2ebrch = i2ebrch, !.i2ebusdc = i2ebusdc,
                                   !.i2econvdc = i2econvdc,
                                   !.i2ebrchdc = i2ebrchdc]
    /\ pc' = "solve"
    /\ UNCHANGED <<caller, casein, outg, iterVars>>

\* runacdcpf.py:151-599  the power flow writes results into the tables; it
\* keeps their bus number columns and, but for the converter matrix that is
\* expanded to one row per DC bus and reduced again, their rows
Solve ==
    /\ pc = "solve"
    /\ tab' = [tab EXCEPT !.convdc =
                  compressconv(expandconv(tab.convdc, Len(tab.busdc)))]
    /\ pc' = "undosort"
    /\ UNCHANGED <<caller, casein, outg, i2e, iterVars>>

\* runacdcpf.py:604-610
UndoSorting ==
    /\ pc = "undosort"
    /\ tab' = [bus |-> assignrows(tab.bus, i2e.i2ebus),
               gen |-> assignrows(tab.gen, i2e.i2egen),
               branch |-> assignrows(tab.branch, i2e.i2ebrch),
               busdc |-> assignrows(tab.busdc, i2e.i2ebusdc),
               convdc |-> assignrows(tab.convdc, i2e.i2econvdc),
               branchdc |-> assignrows(tab.branchdc, i2e.i2ebrchdc)]
    /\ pc' = "int2ext"
    /\ UNCHANGED <<caller, casein, outg, i2e, iterVars>>

\* runacdcpf.py:612-613
Int2Ext ==
    /\ pc = "int2ext"
    /\ LET a == int2extac(i2e.i2eac, i2e.acdmbus, tab.busdc, tab.bus, tab.gen,
                          tab.branch)
           d == int2extdc(i2e.i2edcpmt, i2e.i2edc, a.busdc, tab.convdc,
                          tab.branchdc)
       IN  tab' = [bus |-> a.bus, gen |-> a.gen, branch |-> a.branch,
                   busdc |-> d.busdc, convdc |-> d.convdc,
                   branchdc |-> d.branchdc]
    /\ pc' = "outagein"
    /\ UNCHANGED <<caller, casein, outg, i2e, iterVars>>

\* runacdcpf.py:615-652  rows in outage are put back
OutageInclusion ==
    /\ pc = "outagein"
    /\ IF \/ includefails(outg.goff, outg.gen0, outg.gon, tab.gen)
          \/ includefails(outg.conv0i, outg.conv0, outg.conv1i, tab.convdc)
          \/ includefails(outg.brchdc0i, outg.brchdc0, outg.brchdc1i,
                          tab.branchdc)
          \/ /\ Len(tab.branch) # 0
             /\ includefails(outg.brch0i, outg.brch0, outg.brch1i, tab.branch)
       THEN /\ pc' = "error"
            /\ UNCHANGED tab
       ELSE /\ pc' = "done"
            /\ tab' =
                [bus |-> tab.bus,
                 gen |-> includeoutages(outg.goff, outg.gen0, outg.gon, tab.gen,
                            [GEN_BUS |-> 0, GEN_STATUS |-> 0]),
                 branch |->
                    IF Len(tab.branch) = 0 THEN outg.brch0
                    ELSE includeoutages(outg.brch0i, outg.brch0, outg.brch1i,
                            tab.branch,
                            [F_BUS |-> 0, T_BUS |-> 0, BR_STATUS |-> 0]),
                 busdc |-> restoreacbus(tab.busdc, outg.conv0busi, 1),
                 convdc |-> includeoutages(outg.conv0i, outg.conv0, outg.conv1i,
                               tab.convdc,
                               [CONV_BUS |-> 0, CONVSTATUS |-> 0, PCONV |-> 0,
                                QCONV |-> 0]),
                 branchdc |-> includeoutages(outg.brchdc0i, outg.brchdc0,
                                 outg.brchdc1i, tab.branchdc,
                                 [F_BUSDC |-> 0, T_BUSDC |-> 0,
                                  BRDC_STATUS |-> 0])]
    /\ UNCHANGED <<caller, casein, outg, i2e, iterVars>>

NextOut ==
    \/ ConvOut
    \/ BrchdcOut
    \/ BrchOut
    \/ GenOut

NextNum ==
    \/ ConvOut
    \/ BrchdcOut
    \/ BrchOut
    \/ GenOut
    \/ Ext2IntDC
    \/ Ext2IntAC
    \/ SortMatrices
    \/ Solve
    \/ UndoSorting
    \/ Int2Ext
    \/ OutageInclusion

\* ------------------------------------------------------- table inputs
\* rows per table in the inputs of the outage model
NConv == 2
NBrchDC == 2
NBrch == 2
NGen == 2
\* bus numbers of the inputs of the numbering model are drawn from 1..MaxBusId
MaxBusId == 3

BusIds == 1..MaxBusId

\* state at runacdcpf.py:114 for the outage model: fixed bus numbers, status
\* flags drawn with values outside {0,1}
InitOut ==
    /\ pc = "convout"
    /\ LoopIdle
    /\ outg = NoOutages
    /\ i2e = NoNumbering
    /\ \E cst \in [1..NConv -> {0, 1, 2}], cp \in [1..NConv -> PVals],
          dst \in [1..NBrchDC -> {0, 1, 2}], bst \in [1..NBrch -> {0, 1, 2}],
          gst \in [1..NGen -> {-1, 0, 1, 2}] :
        casein =
          [bus |-> [k \in 1..NConv |-> [BUS_I |-> k]],
           gen |-> [i \in 1..NGen |->
                      [GEN_BUS |-> ((i - 1) % NConv) + 1, GEN_STATUS |-> gst[i]]],
           branch |-> [i \in 1..NBrch |->
                         [F_BUS |-> ((i - 1) % NConv) + 1,
                          T_BUS |-> (i % NConv) + 1, BR_STATUS |-> bst[i]]],
           busdc |-> [k \in 1..NConv |->
                        [BUSDC_I |-> k, BUSAC_I |-> k, GRIDDC |-> 1]],
           convdc |-> [k \in 1..NConv |->
                         [CONV_BUS |-> k, CONVSTATUS |-> cst[k],
                          PCONV |-> cp[k], QCONV |-> 1]],
           branchdc |-> [i \in 1..NBrchDC |->
                           [F_BUSDC |-> ((i - 1) % NConv) + 1,
                            T_BUSDC |-> (i % NConv) + 1,
                            BRDC_STATUS |-> dst[i]]]]
    /\ tab = casein
    /\ caller = casein

SpecOut == InitOut /\ [][NextOut]_vars

InjSeqs(S, n) == {s \in [1..n -> S] : \A i, j \in 1..n : s[i] = s[j] => i = j}

\* AC bus of every DC bus (0: none), no AC bus used twice
ACRefs == {r \in [1..NBusDC -> 0..MaxBusId] :
              \A i, j \in 1..NBusDC : r[i] # 0 /\ r[i] = r[j] => i = j}

\* grid numbers without gaps
GridInputs == {g \in [1..NBusDC -> 1..NBusDC] :
                  {g[k] : k \in 1..NBusDC} =
                      1..Cardinality({g[k] : k \in 1..NBusDC})}

BusTables == {[k \in 1..MaxBusId |-> [BUS_I |-> p[k]]] : p \in Perms(MaxBusId)}

BusdcTable(ids, refs, grids) ==
    [k \in 1..NBusDC |->
        [BUSDC_I |-> ids[k], BUSAC_I |-> refs[k], GRIDDC |-> grids[k]]]

\* one converter at every DC bus that has an AC bus, listed in the order ord
ConvdcTable(bd, ord, st) ==
    [j \in 1..Len(ord) |->
        [CONV_BUS |-> bd[ord[j]].BUSDC_I, CONVSTATUS |-> st[j],
         PCONV |-> 1, QCONV |-> 1]]

ConvdcTables(bd) ==
    LET conn == {k \in 1..NBusDC : bd[k].BUSAC_I # 0}
    IN  {ConvdcTable(bd, ord, st) :
            ord \in InjSeqs(conn, Cardinality(conn)),
            st \in [1..Cardinality(conn) -> {0, 1}]}

\* every DC grid has a converter in service
GridsServed(bd, cd) ==
    \A k \in 1..Len(bd) : \E j \in 1..Len(bd), i \in 1..Len(cd) :
        /\ bd[j].GRIDDC = bd[k].GRIDDC
        /\ cd[i].CONV_BUS = bd[j].BUSDC_I
        /\ cd[i].CONVSTATUS = 1

PlainGen == <<[GEN_BUS |-> 1, GEN_STATUS |-> 1]>>

PlainBranch == <<[F_BUS |-> 1, T_BUS |-> 2, BR_STATUS |-> 1]>>

PlainBusdc(refs) == BusdcTable([k \in 1..NBusDC |-> k], refs,
                               [k \in 1..NBusDC |-> 1])

PlainConvdc(bd) ==
    ConvdcTable(bd, ascending({k \in 1..NBusDC : bd[k].BUSAC_I # 0}),
                [k \in 1..NBusDC |-> 1])

BranchdcTable(ids, st) ==
    [i \in 1..Len(st) |->
        [F_BUSDC |-> IF i % 2 = 1 THEN ids[1] ELSE ids[NBusDC],
         T_BUSDC |-> IF i % 2 = 1 THEN ids[NBusDC] ELSE ids[1],
         BRDC_STATUS |-> st[i]]]

GenTables == {g \in [1..NGen -> [GEN_BUS : BusIds, GEN_STATUS : {0, 1}]] :
                 \E i \in 1..NGen : g[i].GEN_STATUS = 1}

BranchTables == {b \in [1..NBrch -> [F_BUS : BusIds, T_BUS : BusIds,
                                     BR_STATUS : {0, 1}]] :
                    \A i \in 1..NBrch : b[i].F_BUS # b[i].T_BUS}

\* state at runacdcpf.py:114 for the numbering model: status flags in {0,1},
\* bus numbers, references and row orders drawn freely in the DC tables, in
\* the bus and generator tables, or in the bus and branch tables
InitNum ==
    /\ pc = "convout"
    /\ LoopIdle
    /\ outg = NoOutages
    /\ i2e = NoNumbering
    /\ \/ \E ids \in InjSeqs(BusIds, NBusDC), refs \in ACRefs,
             grids \in GridInputs, st \in [1..NBrchDC -> {0, 1}] :
            \E cd \in ConvdcTables(BusdcTable(ids, refs, grids)) :
               /\ GridsServed(BusdcTable(ids, refs, grids), cd)
               /\ casein = [bus |-> [k \in 1..MaxBusId |-> [BUS_I |-> k]],
                            gen |-> PlainGen,
                            branch |-> PlainBranch,
                            busdc |-> BusdcTable(ids, refs, grids),
                            convdc |-> cd,
                            branchdc |-> BranchdcTable(ids, st)]
       \/ \E bus \in BusTables, refs \in ACRefs, gen \in GenTables :
               /\ GridsServed(PlainBusdc(refs), PlainConvdc(PlainBusdc(refs)))
               /\ casein = [bus |-> bus,
                            gen |-> gen,
                            branch |-> PlainBranch,
                            busdc |-> PlainBusdc(refs),
                            convdc |-> PlainConvdc(PlainBusdc(refs)),
                            branchdc |-> BranchdcTable([k \in 1..NBusDC |-> k],
                                                       <<1>>)]
       \/ \E bus \in BusTables, refs \in ACRefs, branch \in BranchTables :
               /\ GridsServed(PlainBusdc(refs), PlainConvdc(PlainBusdc(refs)))
               /\ casein = [bus |-> bus,
                            gen |-> PlainGen,
                            branch |-> branch,
                            busdc |-> PlainBusdc(refs),
                            convdc |-> PlainConvdc(PlainBusdc(refs)),
                            branchdc |-> BranchdcTable([k \in 1..NBusDC |-> k],
                                                       <<1>>)]
    /\ tab = casein
    /\ caller = casein

SpecNum == InitNum /\ [][NextNum]_vars

\* ------------------------------------- properties of SpecOut and SpecNum
PrepStages == {"convout", "brchdcout", "brchout", "genout"}

StatusValid(tbl, f) == \A i \in 1..Len(tbl) : tbl[i][f] \in {0, 1}

\* the two index lists are ascending, disjoint and cover the rows 1..n
IndexPartition(idx1, idx0, n) ==
    /\ \A i, j \in 1..Len(idx1) : i < j => idx1[i] < idx1[j]
    /\ \A i, j \in 1..Len(idx0) : i < j => idx0[i] < idx0[j]
    /\ {idx1[i] : i \in 1..Len(idx1)} \cap {idx0[i] : i \in 1..Len(idx0)} = {}
    /\ {idx1[i] : i \in 1..Len(idx1)} \cup {idx0[i] : i \in 1..Len(idx0)} = 1..n
    /\ Len(idx1) + Len(idx0) = n

\* rows written back at their indices
writeback(idx1, rows1, idx0, rows0) ==
    [k \in 1..(Len(idx1) + Len(idx0)) |->
        IF \E j \in 1..Len(idx1) : idx1[j] = k
        THEN rows1[CHOOSE j \in 1..Len(idx1) : idx1[j] = k]
        ELSE rows0[CHOOSE j \in 1..Len(idx0) : idx0[j] = k]]

\* C7: the run aborts before any renumbering or solve whenever a row of the
\* converter, DC branch, AC branch or generator table has a status other
\* than 0 or 1
C7_AbortOnBadStatus ==
    pc \notin PrepStages \cup {"error"} =>
        /\ StatusValid(casein.convdc, "CONVSTATUS")
        /\ StatusValid(casein.branchdc, "BRDC_STATUS")
        /\ StatusValid(casein.branch, "BR_STATUS")
        /\ StatusValid(casein.gen, "GEN_STATUS")

\* C8: for each of the four tables the operating and the outage index lists
\* are ascending, disjoint, and cover every row of the table exactly once
C8_IndexListsPartition ==
    pc \notin PrepStages \cup {"error"} =>
        /\ IndexPartition(outg.conv1i, outg.conv0i, Len(casein.convdc))
        /\ IndexPartition(outg.brchdc1i, outg.brchdc0i, Len(casein.branchdc))
        /\ IndexPartition(outg.brch1i, outg.brch0i, Len(casein.branch))
        /\ IndexPartition(outg.gon, outg.goff, Len(casein.gen))

\* C9 as stated: writing the operating and the outage rows of convout,
\* brchdcout and brchout back at their indices gives the input matrix in
\* every column
C9_WriteBackExact ==
    pc = "ext2intdc" =>
        /\ IndexPartition(outg.conv1i, outg.conv0i, Len(casein.convdc))
        /\ writeback(outg.conv1i, tab.convdc, outg.conv0i, outg.conv0)
              = casein.convdc
        /\ IndexPartition(outg.brchdc1i, outg.brchdc0i, Len(casein.branchdc))
        /\ writeback(outg.brchdc1i, tab.branchdc, outg.brchdc0i, outg.brchdc0)
              = casein.branchdc
        /\ IndexPartition(outg.brch1i, outg.brch0i, Len(casein.branch))
        /\ writeback(outg.brch1i, tab.branch, outg.brch0i, outg.brch0)
              = casein.branch

\* C9: writing the operating and the outage rows of convout, brchdcout and
\* brchout back at their indices gives the input matrix, in every column for
\* the two branch tables, and for the converter table in every column but
\* PCONV and QCONV of the rows in outage, which are 0
C9_WriteBackUpToOutagePowers ==
    pc = "ext2intdc" =>
        /\ IndexPartition(outg.conv1i, outg.conv0i, Len(casein.convdc))
        /\ writeback(outg.conv1i, tab.convdc, outg.conv0i, outg.conv0)
              = [k \in 1..Len(casein.convdc) |->
                    IF casein.convdc[k].CONVSTATUS = 0
                    THEN [casein.convdc[k] EXCEPT !.PCONV = 0, !.QCONV = 0]
                    ELSE casein.convdc[k]]
        /\ IndexPartition(outg.brchdc1i, outg.brchdc0i, Len(casein.branchdc))
        /\ writeback(outg.brchdc1i, tab.branchdc, outg.brchdc0i, outg.brchdc0)
              = casein.branchdc
        /\ IndexPartition(outg.brch1i, outg.brch0i, Len(casein.branch))
        /\ writeback(outg.brch1i, tab.branch, outg.brch0i, outg.brch0)
              = casein.branch

\* the filters have split three tables that each hold a row in service and a
\* row in outage, the converter in outage carrying a power
C9_Witness ==
    /\ pc = "ext2intdc"
    /\ Len(outg.conv0i) > 0 /\ Len(outg.conv1i) > 0
    /\ \E j \in 1..Len(outg.conv0i) : casein.convdc[outg.conv0i[j]].PCONV # 0
    /\ Len(outg.brchdc0i) > 0 /\ Len(outg.brchdc1i) > 0
    /\ Len(outg.brch0i) > 0 /\ Len(outg.brch1i) > 0

SameColumn(out, in, f) ==
    /\ Len(out) = Len(in)
    /\ \A i \in 1..Len(in) : out[i][f] = in[i][f]

\* C10: every returned table has the rows of its input, and row i carries the
\* bus numbers of row i of the input
C10_RowsKeepIdentifiers ==
    pc = "done" =>
        /\ SameColumn(tab.bus, casein.bus, "BUS_I")
        /\ SameColumn(tab.gen, casein.gen, "GEN_BUS")
        /\ SameColumn(tab.branch, casein.branch, "F_BUS")
        /\ SameColumn(tab.branch, casein.branch, "T_BUS")
        /\ SameColumn(tab.busdc, casein.busdc, "BUSDC_I")
        /\ SameColumn(tab.busdc, casein.busdc, "BUSAC_I")
        /\ SameColumn(tab.convdc, casein.convdc, "CONV_BUS")
        /\ SameColumn(tab.branchdc, casein.branchdc, "F_BUSDC")
        /\ SameColumn(tab.branchdc, casein.branchdc, "T_BUSDC")

\* ------------------------------------------- numbering round trips
\* the round trips are run on tables with one DC bus more than the other
\* models, so that row permutations that are not their own inverse occur
RtN == NBusDC + 1

RtIds == 1..(MaxBusId + 1)

RtGrids == {g \in [1..RtN -> 1..RtN] :
               {g[k] : k \in 1..RtN} = 1..Cardinality({g[k] : k \in 1..RtN})}

\* AC bus tables with distinct numbers and at least as many buses as DC buses
RtBusTables ==
    UNION {{[k \in 1..n |-> [BUS_I |-> s[k]]] : s \in InjSeqs(RtIds, n)} :
              n \in RtN..(MaxBusId + 1)}

\* AC bus of every DC bus: 0 or a bus of the table (a bus may be used twice)
RtRefs(bus) == [1..RtN -> {0} \cup {bus[i].BUS_I : i \in 1..Len(bus)}]

RtConvRow(b) == [CONV_BUS |-> b, CONVSTATUS |-> 1, PCONV |-> 1, QCONV |-> 1]

\* a converter at every DC bus, listed from the last bus to the first
RtConvdc(ids) == [i \in 1..RtN |-> RtConvRow(ids[RtN + 1 - i])]

\* a DC line from every DC bus to the next one of the table, the last to the first
RtBranchdc(ids) ==
    [i \in 1..RtN |->
        [F_BUSDC |-> ids[i], T_BUSDC |-> ids[(i % RtN) + 1], BRDC_STATUS |-> 1]]

\* a generator at every AC bus, listed from the last bus to the first
RtGen(bus) ==
    [i \in 1..Len(bus) |->
        [GEN_BUS |-> bus[Len(bus) + 1 - i].BUS_I, GEN_STATUS |-> 1]]

\* a line from every AC bus to the next one of the table, the last to the first
RtBranch(bus) ==
    [i \in 1..Len(bus) |->
        [F_BUS |-> bus[i].BUS_I, T_BUS |-> bus[(i % Len(bus)) + 1].BUS_I,
         BR_STATUS |-> 1]]

RtBusdc(ids, refs, grids) ==
    [k \in 1..RtN |->
        [BUSDC_I |-> ids[k], BUSAC_I |-> refs[k], GRIDDC |-> grids[k]]]

\* inputs of ext2intdc and ext2intac called on their own: the DC bus table
\* drawn freely over a plain AC system, or the AC bus table and the AC buses
\* of the DC buses drawn freely over a plain DC system
InitRT ==
    /\ pc = "rtext2intdc"
    /\ LoopIdle
    /\ outg = NoOutages
    /\ i2e = NoNumbering
    /\ \/ \E ids \in InjSeqs(RtIds, RtN), grids \in RtGrids,
             conn \in [1..RtN -> BOOLEAN] :
            casein =
              [bus |-> [k \in 1..(MaxBusId + 1) |-> [BUS_I |-> k]],
               gen |-> RtGen([k \in 1..(MaxBusId + 1) |-> [BUS_I |-> k]]),
               branch |-> RtBranch([k \in 1..(MaxBusId + 1) |-> [BUS_I |-> k]]),
               busdc |-> RtBusdc(ids, [k \in 1..RtN |->
                                         IF conn[k] THEN ids[k] ELSE 0], grids),
               convdc |-> RtConvdc(ids),
               branchdc |-> RtBranchdc(ids)]
       \/ \E bus \in RtBusTables :
            \E refs \in RtRefs(bus) :
              casein =
                [bus |-> bus,
                 gen |-> RtGen(bus),
                 branch |-> RtBranch(bus),
                 busdc |-> RtBusdc([k \in 1..RtN |-> k], refs,
                                   [k \in 1..RtN |-> 1]),
                 convdc |-> RtConvdc([k \in 1..RtN |-> k]),
                 branchdc |-> RtBranchdc([k \in 1..RtN |-> k])]
    /\ tab = casein
    /\ caller = casein

\* ext2intdc.py:12-86 called on the tables
RtExt2IntDC ==
    /\ pc = "rtext2intdc"
    /\ \E srt \in argsort(column(rows(tab.busdc, ext2intdcpmt(tab.busdc)),
                                 "GRIDDC")) :
        LET r == ext2intdc(tab.busdc, tab.convdc, tab.branchdc, srt)
        IN  IF r.err
            THEN /\ pc' = "error"
                 /\ UNCHANGED <<tab, i2e>>
            ELSE /\ pc' = "rtint2extdc"
                 /\ tab' = [tab EXCEPT !.busdc = r.busdc, !.convdc = r.convdc,
                                       !.branchdc = r.branchdc]
                 /\ i2e' = [i2e EXCEPT !.i2edcpmt = r.i2edcpmt,
                                       !.i2edc = r.i2edc]
    /\ UNCHANGED <<caller, casein, outg, iterVars>>

\* int2extdc.py:12-53 called with what ext2intdc returned
RtInt2ExtDC ==
    /\ pc = "rtint2extdc"
    /\ LET d == int2extdc(i2e.i2edcpmt, i2e.i2edc, tab.busdc, tab.convdc,
                          tab.branchdc)
       IN  tab' = [tab EXCEPT !.busdc = d.busdc, !.convdc = d.convdc,
                              !.branchdc = d.branchdc]
    /\ pc' = "rtext2intac"
    /\ UNCHANGED <<caller, casein, outg, i2e, iterVars>>

\* ext2intac.py:18-96 called on the tables
RtExt2IntAC ==
    /\ pc = "rtext2intac"
    /\ LET r == ext2intac(tab.busdc, tab.bus, tab.gen, tab.branch)
       IN  IF r.err
           THEN /\ pc' = "error"
                /\ UNCHANGED <<tab, i2e>>
           ELSE /\ pc' = "rtint2extac"
                /\ tab' = [tab EXCEPT !.busdc = r.busdc, !.bus = r.bus,
                                      !.gen = r.gen, !.branch = r.branch]
                /\ i2e' = [i2e EXCEPT !.i2eac = r.i2eac, !.acdmbus = r.acdmbus]
    /\ UNCHANGED <<caller, casein, outg, iterVars>>

\* int2extac.py:13-51 called with what ext2intac returned
RtInt2ExtAC ==
    /\ pc = "rtint2extac"
    /\ LET a == int2extac(i2e.i2eac, i2e.acdmbus, tab.busdc, tab.bus, tab.gen,
                          tab.branch)
       IN  tab' = [tab EXCEPT !.busdc = a.busdc, !.bus = a.bus, !.gen = a.gen,
                              !.branch = a.branch]
    /\ pc' = "rtdone"
    /\ UNCHANGED <<caller, casein, outg, i2e, iterVars>>

NextRT ==
    \/ RtExt2IntDC
    \/ RtInt2ExtDC
    \/ RtExt2IntAC
    \/ RtInt2ExtAC

SpecRT == InitRT /\ [][NextRT]_vars

\* C11: int2extdc, given the permutation and the mapping of ext2intdc, puts
\* the rows of busdc back in their order and gives BUSDC_I, CONV_BUS, F_BUSDC
\* and T_BUSDC the values they had before ext2intdc
C11_DCRoundTrip ==
    pc = "rtext2intac" =>
        /\ tab.busdc = casein.busdc
        /\ tab.convdc = casein.convdc
        /\ tab.branchdc = casein.branchdc

\* a round trip through an internal numbering that differs from the input in
\* bus numbers and by a row permutation that is not its own inverse
C11_Witness ==
    /\ pc = "rtext2intac"
    /\ rows(i2e.i2edcpmt, i2e.i2edcpmt) # [k \in 1..RtN |-> k]
    /\ \E k \in 1..RtN : casein.busdc[k].BUSDC_I > RtN

\* C12: int2extac, given the mapping and the dummy indices of ext2intac,
\* gives BUS_I, GEN_BUS, F_BUS, T_BUS and BUSAC_I (0 for a DC bus without AC
\* bus) the values they had before ext2intac
C12_ACRoundTrip ==
    pc = "rtdone" =>
        /\ tab.bus = casein.bus
        /\ tab.gen = casein.gen
        /\ tab.branch = casein.branch
        /\ tab.busdc = casein.busdc

\* a round trip with a dummy AC bus, over a bus table whose numbers have a
\* gap and whose internal numbers differ from the external ones
C12_Witness ==
    /\ pc = "rtdone"
    /\ Len(i2e.acdmbus) > 0
    /\ \E k \in 1..RtN : casein.busdc[k].BUSAC_I # 0
    /\ \E i \in 1..Len(casein.bus) : casein.bus[i].BUS_I > Len(casein.bus)
    /\ i2e.i2eac # column(casein.bus, "BUS_I")

\* ------------------------------------------------------------ zonecheck
\* np.sort of a sequence of numbers
RECURSIVE npsort(_)
npsort(s) ==
    IF s = << >> THEN << >>
    ELSE LET m == Min({s[i] : i \in 1..Len(s)})
             k == CHOOSE i \in 1..Len(s) : s[i] = m
         IN  <<m>> \o npsort(SubSeq(s, 1, k - 1) \o SubSeq(s, k + 1, Len(s)))

\* a[a == np.roll(a, 1)]: the entries equal to their cyclic predecessor
rolldup(a) ==
    rows(a, ascending({i \in 1..Len(a) :
                         a[i] = a[IF i = 1 THEN Len(a) ELSE i - 1]}))

\* zonecheck.py:17-133 on tables in internal numbering: the message of the
\* ValueError raised, or "zonechecked" when the function returns
zonecheck(bus, gen, branch) ==
    LET n == Len(bus)
        aczones == {bus[i].ZONE : i \in 1..n}
        branchconfl == {b \in 1..Len(branch) :
                          bus[branch[b].F_BUS].ZONE # bus[branch[b].T_BUS].ZONE}
        acslack == {i \in 1..n : bus[i].BUS_TYPE = "REF"}
        acslackz == npsort(column(rows(bus, ascending(acslack)), "ZONE"))
        acinf == {i \in 1..n : bus[i].BUS_TYPE = "inf"}
        acinfz == npsort(column(rows(bus, ascending(acinf)), "ZONE"))
        nogenslack == acslack \ {gen[g].GEN_BUS : g \in 1..Len(gen)}
        zone_noslack == aczones \ {acslackz[i] : i \in 1..Len(acslackz)}
        zone_noslack_noinf ==
            zone_noslack \ {acinfz[i] : i \in 1..Len(acinfz)}
        multslack == rolldup(npsort(acslackz))
        brchinf == {i \in acinf : \E b \in 1..Len(branch) :
                        branch[b].F_BUS = i \/ branch[b].T_BUS = i}
        acninf == {bus[i].BUS_I : i \in 1..n} \ acinf
        conflinfz == {acinfz[i] : i \in 1..Len(acinfz)}
                        \cap {bus[i].ZONE : i \in acninf}
        multinf == rolldup(acinfz)
    IN  IF branchconfl # {}
        THEN "Connection between different AC zones detected."
        ELSE IF /\ Len(acslackz) < Cardinality(aczones)
                /\ zone_noslack_noinf # {}
        THEN "Define an AC slack bus for every non-synchronized zone!"
        ELSE IF \/ /\ Len(acslackz) > Cardinality(aczones)
                   /\ Len(multslack) > 0
                \/ /\ Len(acslackz) = Cardinality(aczones)
                   /\ acinf # {}
                   /\ Len(multslack) > 1
        THEN "Reduce number of AC slack buses to 1 for every non-synchronized zone!"
        ELSE IF nogenslack # {}
        THEN "Add a generator for every AC slack bus!"
        ELSE IF brchinf # {}
        THEN "Remove connections to infinite buses!"
        ELSE IF conflinfz # {}
        THEN "Remove infinite or regular buses!"
        ELSE IF acinfz # << >> /\ Len(multinf) > 1
        THEN "Reduce number of infinite buses to 1 for every non-synchronized zone!"
        ELSE "zonechecked"

\* inputs of zonecheck: NZBus AC buses in internal numbering, each with one of
\* the bus types and one of the zone labels
NZBus == NBusDC + 2

ZoneIds == 1..MaxBusId

ZoneBusTypes == {"PQ", "PV", "REF", "inf"}

ZoneBusTables ==
    {[k \in 1..NZBus |-> [BUS_I |-> k, BUS_TYPE |-> ty[k], ZONE |-> z[k]]] :
        ty \in [1..NZBus -> ZoneBusTypes], z \in [1..NZBus -> ZoneIds]}

\* a generator at every bus, or at the first bus only
ZoneGenTables ==
    {[k \in 1..NZBus |-> [GEN_BUS |-> k]], <<[GEN_BUS |-> 1]>>}

\* no branch, or one branch between the first two or the last two buses
ZoneBranchTables ==
    {<< >>, <<[F_BUS |-> 1, T_BUS |-> 2]>>,
     <<[F_BUS |-> NZBus - 1, T_BUS |-> NZBus]>>}

InitZone ==
    /\ pc = "zonecheck"
    /\ LoopIdle
    /\ outg = NoOutages
    /\ i2e = NoNumbering
    /\ \E bus \in ZoneBusTables, gen \in ZoneGenTables,
          branch \in ZoneBranchTables :
        casein = [NoTables EXCEPT !.bus = bus, !.gen = gen, !.branch = branch]
    /\ tab = casein
    /\ caller = casein

\* runacdcpf.py:291, the call of zonecheck
ZoneCheck ==
    /\ pc = "zonecheck"
    /\ pc' = zonecheck(tab.bus, tab.gen, tab.branch)
    /\ UNCHANGED <<tblVars, iterVars>>

NextZone == ZoneCheck

SpecZone == InitZone /\ [][NextZone]_vars

\* the REF buses of a zone, and its infinite buses
RefBusesOf(z) ==
    {i \in 1..Len(tab.bus) : tab.bus[i].ZONE = z /\ tab.bus[i].BUS_TYPE = "REF"}

InfBusesOf(z) ==
    {i \in 1..Len(tab.bus) : tab.bus[i].ZONE = z /\ tab.bus[i].BUS_TYPE = "inf"}

ZonesOf == {tab.bus[i].ZONE : i \in 1..Len(tab.bus)}

\* C13: zonecheck raises whenever some AC zone holds more than one REF bus,
\* whatever the number of zones and whatever slack and infinite buses the
\* other zones hold
C13_RaisesOnMultipleSlack ==
    (pc # "zonecheck" /\ \E z \in ZonesOf : Cardinality(RefBusesOf(z)) > 1)
        => pc # "zonechecked"

\* C14: zonecheck raises whenever some AC zone holds neither a REF bus nor an
\* infinite bus, whatever the number of slack buses of the other zones
C14_RaisesOnZoneWithoutSlack ==
    (pc # "zonecheck"
       /\ \E z \in ZonesOf : RefBusesOf(z) = {} /\ InfBusesOf(z) = {})
        => pc # "zonechecked"

\* ------------------------------------------- initialisation of runacdcpf
\* state of runacdcpf at line 160 with every type of AC bus at the converter
\* buses, with or without a generator of its own
InitIni ==
    /\ pc = "violcheck"
    /\ macdcopt \in [LIMAC : {0}, MULTSLACK : {0, 1}]
    /\ \E g \in GridSeqs : busdc = [k \in BusesDC |-> [GRIDDC |-> g[k]]]
    /\ convdc \in {c \in [BusesDC -> UNION {ConvRows(k) : k \in BusesDC}] :
                     \A k \in BusesDC : c[k] \in ConvRows(k)}
    /\ slackdc = {}
    /\ droopdc = {}
    /\ slackdroopdc = {}
    /\ noslackbdc = {}
    /\ it = 0
    /\ converged = FALSE
    /\ Ps = [k \in BusesDC |-> 0]
    /\ Ps_old = [k \in BusesDC |-> 0]
    /\ ii = 0
    /\ limviol = [k \in BusesDC |-> 0]
    /\ SsL = [k \in BusesDC |-> [P |-> 0, dQ |-> 0]]
    /\ dSiimaxi = 0
    /\ dcconverged = FALSE
    /\ convergedslackdroop = FALSE
    /\ cflag = TRUE
    /\ \E ty \in [BusesDC -> BusTypes], gb \in {{}, BusesDC} :
         acnet = [NoACNet EXCEPT !.bus = ty, !.genbus = gb]
    /\ cl = NoCall
    /\ TablesIdle

NextIni ==
    \/ ViolationCheck
    \/ RemoveMultSlack
    \/ RemoveVControl
    \/ InitACNetwork

SpecIni == InitIni /\ [][NextIni]_vars

\* converters, i.e. the non-zero rows of the expanded converter matrix
Converters == {k \in BusesDC : convdc[k].CONV_BUS # 0}

\* C15: the step before the first outer iteration switches every PV converter
\* whose AC bus is PV or REF to PQ with reactive setpoint 0, and leaves the AC
\* mode of every converter whose AC bus is neither PV nor REF as it was
C15_VControlConflictsRemoved ==
    [][pc = "vcontrol" =>
         /\ it' = 0
         /\ \A k \in Converters :
              /\ (convdc[k].CONVTYPE_AC = "PV" /\ acnet.bus[k] \in {"PV", "REF"})
                   => /\ convdc'[k].CONVTYPE_AC = "PQ"
                      /\ convdc'[k].QCONV = 0
              /\ acnet.bus[k] \notin {"PV", "REF"}
                   => convdc'[k].CONVTYPE_AC = convdc[k].CONVTYPE_AC]_vars

\* the step has switched a converter on a REF bus and one on a PV bus, or has
\* switched one and kept a PV converter on a PQ bus
C15_Witness ==
    /\ pc = "acinit"
    /\ \E k \in Converters : /\ acnet.bus[k] = "REF"
                             /\ convdc[k].CONVTYPE_AC = "PQ"
                             /\ convdc[k].QCONV = 0
    /\ \E k \in Converters : \/ /\ acnet.bus[k] = "PQ"
                                /\ convdc[k].CONVTYPE_AC = "PV"
                             \/ /\ acnet.bus[k] = "PV"
                                /\ convdc[k].CONVTYPE_AC = "PQ"
                                /\ convdc[k].QCONV = 0

\* slack converters of DC grid g
SlackOf(g) ==
    {k \in BusesDC : busdc[k].GRIDDC = g /\ convdc[k].CONVTYPE_DC = "slack"}

\* C16: with MULTSLACK = 0 the initialisation leaves every DC grid at most one
\* slack converter: of several slack converters of a grid the one at the
\* lowest internal bus stays slack and the others become no-slack converters;
\* a grid with at most one slack converter is left as it was
C16_OneSlackPerGrid ==
    [][(pc = "multslack" /\ macdcopt.MULTSLACK = 0) =>
         /\ it' = 0
         /\ slackdc' = {k \in BusesDC : convdc'[k].CONVTYPE_DC = "slack"}
         /\ \A g \in GridsDC :
              /\ Cardinality({k \in slackdc' : busdc[k].GRIDDC = g}) <= 1
              /\ \A k \in BusesDC : busdc[k].GRIDDC = g =>
                   convdc'[k] =
                     IF k \in SlackOf(g) /\ k # Min(SlackOf(g))
                     THEN [convdc[k] EXCEPT !.CONVTYPE_DC = "noslack"]
                     ELSE convdc[k]]_vars

\* after the step: one grid of which the first bus has the slack converter
\* and a later bus a no-slack converter, next to a grid with a droop
\* converter only, or a single grid
C16_Witness ==
    /\ pc = "vcontrol"
    /\ macdcopt.MULTSLACK = 0
    /\ convdc[1].CONVTYPE_DC = "slack"
    /\ \E k \in BusesDC : /\ k > 1
                          /\ busdc[k].GRIDDC = 1
                          /\ convdc[k].CONVTYPE_DC = "noslack"
    /\ slackdc = {1}

\* C17: with LIMAC = 1 the pass of the limit check over DC grid ii replaces
\* the setpoint of at most one converter, and that converter belongs to grid
\* ii, is not a DC slack converter, and has a violation code 1 or 2 from
\* convlim in this iteration
C17_ReplacedConverterIsViolator ==
    [][pc = "limcheck" =>
         /\ macdcopt.LIMAC = 1
         /\ \A k \in BusesDC : k # dSiimaxi' => Ps'[k] = Ps[k]
         /\ dSiimaxi' # 0 =>
              /\ dSiimaxi' \in Converters
              /\ busdc[dSiimaxi'].GRIDDC = ii
              /\ convdc[dSiimaxi'].CONVTYPE_DC # "slack"
              /\ limviol'[dSiimaxi'] \in {1, 2}]_vars

\* stages of an outer iteration other than the limit check
OtherStages == {"while", "acsolve", "convmodel", "losscalc", "dcsolve",
                "slackdroop", "convcheck"}

\* C18: the converter whose setpoint the limit check replaces loses its
\* voltage control if it was a PV converter (it becomes PQ, its AC bus in
\* busVSC becomes a PQ bus, its dummy generator is removed) and its droop
\* control if it was a droop converter (it becomes no-slack and leaves droopdc
\* and slackdroopdc, the sets used by the DC solve and the slack/droop
\* solve); every other converter keeps its modes throughout the iteration
C18_ReplacedConverterDowngraded ==
    [][/\ pc = "limcheck" =>
            \A k \in BusesDC :
              IF k = dSiimaxi'
              THEN /\ convdc[k].CONVTYPE_AC = "PV" =>
                        /\ convdc'[k].CONVTYPE_AC = "PQ"
                        /\ acnet'.busVSC[k] = "PQ"
                        /\ k \notin acnet'.gdmbus
                   /\ convdc[k].CONVTYPE_DC = "droop" =>
                        /\ convdc'[k].CONVTYPE_DC = "noslack"
                        /\ k \notin droopdc'
                        /\ k \notin slackdroopdc'
              ELSE /\ convdc'[k] = convdc[k]
                   /\ acnet'.busVSC[k] = acnet.busVSC[k]
                   /\ k \in acnet'.gdmbus <=> k \in acnet.gdmbus
                   /\ k \in droopdc' <=> k \in droopdc
                   /\ k \in slackdroopdc' <=> k \in slackdroopdc
       /\ pc \in OtherStages => /\ convdc' = convdc
                                /\ droopdc' = droopdc
                                /\ slackdroopdc' = slackdroopdc
                                /\ acnet' = acnet
       /\ pc' = "dcsolve" =>
            droopdc' = {k \in BusesDC : convdc'[k].CONVTYPE_DC = "droop"}]_vars

\* the DC solve of an iteration whose limit check replaced the setpoint of a
\* converter that came into the loop as a PV converter with a dummy generator
\* (a PQ converter with reactive setpoint 0 is a former PV converter) and is a
\* no-slack converter now, in a grid that has another converter
C18_Witness ==
    /\ pc = "dcsolve"
    /\ dSiimaxi \in Converters
    /\ limviol[dSiimaxi] \in {1, 2}
    /\ convdc[dSiimaxi].CONVTYPE_AC = "PQ"
    /\ convdc[dSiimaxi].QCONV = 0
    /\ acnet.busVSC[dSiimaxi] = "PQ"
    /\ convdc[dSiimaxi].CONVTYPE_DC = "noslack"
    /\ dSiimaxi \notin acnet.gdmbus
    /\ \E k \in Converters : k # dSiimaxi /\ convdc[k].CONVTYPE_AC = "PV"
                                          /\ k \in acnet.gdmbus

\* --------------------------------------------------------------- convlim
\* a limit of the capability diagram that may be undefined (NaN)
Num(x) == [nan |-> FALSE, v |-> x]

NaN == [nan |-> TRUE, v |-> 0]

\* Python's min(a, b) and max(a, b) with b possibly NaN: b replaces a only if
\* the comparison with a is true
pymin(a, b) == IF ~b.nan /\ b.v < a THEN b.v ELSE a

pymax(a, b) == IF ~b.nan /\ b.v > a THEN b.v ELSE a

\* variant that keeps the violation code whatever the size of the move
convlimcalcnoreset(d, S, epslim) ==
    LET Qs1 == IF d.MQ < S.Q THEN d.MQ + d.r ELSE d.MQ - d.r
        inside ==
            IF S.Q > d.MQ
            THEN IF S.Q > pymin(Qs1, d.Qs2max)
                 THEN [viol |-> 1, P |-> S.P, Q |-> pymin(Qs1, d.Qs2max)]
                 ELSE IF ~d.Qs2min.nan /\ S.Q < d.Qs2min.v
                 THEN [viol |-> 1, P |-> S.P, Q |-> d.Qs2min.v]
                 ELSE [viol |-> 0, P |-> S.P, Q |-> S.Q]
            ELSE IF S.Q < pymax(Qs1, d.Qs2min)
                 THEN [viol |-> 1, P |-> S.P, Q |-> pymax(Qs1, d.Qs2min)]
                 ELSE IF ~d.Qs2max.nan /\ S.Q > d.Qs2max.v
                 THEN [viol |-> 1, P |-> S.P, Q |-> d.Qs2max.v]
                 ELSE [viol |-> 0, P |-> S.P, Q |-> S.Q]
    IN  IF d.Pmin < S.P /\ S.P < d.Pmax THEN inside
        ELSE IF S.P <= d.Pmin
        THEN [viol |-> 2, P |-> d.Pmin, Q |-> d.QPmin]
        ELSE [viol |-> 2, P |-> d.Pmax, Q |-> d.QPmax]

\* convlim.py:213-267  limit check of the point S = P + jQ against the
\* diagram d: Pmin, Pmax with their reactive powers QPmin, QPmax, the current
\* limit MQ +- r at this active power (lines 216-219) and the voltage limits
\* Qs2min, Qs2max at this active power (line 230); a move shorter than epslim
\* is reported as code 0, with the moved point
convlimcalc(d, S, epslim) ==
    LET Qs1 == IF d.MQ < S.Q THEN d.MQ + d.r ELSE d.MQ - d.r
        inside ==
            IF S.Q > d.MQ
            THEN IF S.Q > pymin(Qs1, d.Qs2max)
                 THEN [viol |-> 1, P |-> S.P, Q |-> pymin(Qs1, d.Qs2max)]
                 ELSE IF ~d.Qs2min.nan /\ S.Q < d.Qs2min.v
                 THEN [viol |-> 1, P |-> S.P, Q |-> d.Qs2min.v]
                 ELSE [viol |-> 0, P |-> S.P, Q |-> S.Q]
            ELSE IF S.Q < pymax(Qs1, d.Qs2min)
                 THEN [viol |-> 1, P |-> S.P, Q |-> pymax(Qs1, d.Qs2min)]
                 ELSE IF ~d.Qs2max.nan /\ S.Q > d.Qs2max.v
                 THEN [viol |-> 1, P |-> S.P, Q |-> d.Qs2max.v]
                 ELSE [viol |-> 0, P |-> S.P, Q |-> S.Q]
        res == IF d.Pmin < S.P /\ S.P < d.Pmax THEN inside
               ELSE IF S.P <= d.Pmin
               THEN [viol |-> 2, P |-> d.Pmin, Q |-> d.QPmin]
               ELSE [viol |-> 2, P |-> d.Pmax, Q |-> d.QPmax]
        dP == S.P - res.P
        dQ == S.Q - res.Q
    IN  IF dP * dP + dQ * dQ < epslim * epslim
        THEN [res EXCEPT !.viol = 0]
        ELSE res

\* operating points: active and reactive powers around the diagram
LimP == (0 - MaxP - 1)..(MaxP + 1)

LimQ == (0 - MaxDev - 1)..(MaxDev + 1)

\* values of a voltage limit at one active power: a reactive power or NaN
\* (the voltage circle does not reach this active power)
LimQ2 == {Num(q) : q \in LimQ} \cup {NaN}

\* capability diagrams as lines 56-211 of convlim.py leave them: Pmin < Pmax;
\* QPmin and QPmax are the reactive power of the centre of the current circle
\* or that of an intersection point above it; the current limit is symmetric
\* about the centre; the limit of Vcmin lies below that of Vcmax
\* (Vcmin < Vcmax); and between Pmin and Pmax, which lines 187-211 move to the
\* intersections of the circles, the lower limits do not exceed the upper ones
Diagrams ==
    {d \in [Pmin : (0 - MaxP)..MaxP, Pmax : (0 - MaxP)..MaxP,
            QPmin : LimQ, QPmax : LimQ, MQ : {-1, 0}, r : 0..(MaxDev + 1),
            Qs2min : LimQ2, Qs2max : LimQ2] :
        /\ d.Pmin < d.Pmax
        /\ d.QPmin \in {d.MQ, d.MQ + 1}
        /\ d.QPmax \in {d.MQ, d.MQ + 1}
        /\ (~d.Qs2min.nan /\ ~d.Qs2max.nan) => d.Qs2min.v < d.Qs2max.v
        /\ pymax(d.MQ - d.r, d.Qs2min) <= pymin(d.MQ + d.r, d.Qs2max)}

InitLim ==
    /\ pc = "convlim1"
    /\ macdcopt = [LIMAC |-> 0, MULTSLACK |-> 0]
    /\ busdc = << >>
    /\ convdc = << >>
    /\ slackdc = {}
    /\ droopdc = {}
    /\ slackdroopdc = {}
    /\ noslackbdc = {}
    /\ it = 0
    /\ converged = FALSE
    /\ Ps = << >>
    /\ Ps_old = << >>
    /\ ii = 0
    /\ limviol = << >>
    /\ SsL = << >>
    /\ dSiimaxi = 0
    /\ dcconverged = FALSE
    /\ convergedslackdroop = FALSE
    /\ cflag = TRUE
    /\ acnet = NoACNet
    /\ TablesIdle
    /\ \E d \in Diagrams, P \in LimP, Q \in LimQ, e \in 1..(MaxDev + 1) :
         cl = [called |-> 0, d |-> d, epslim |-> e, Ss |-> [P |-> P, Q |-> Q],
               first |-> [viol |-> 0, P |-> P, Q |-> Q],
               second |-> [viol |-> 0, P |-> P, Q |-> Q]]

\* convlim called on an operating point
ConvLimFirst ==
    /\ pc = "convlim1"
    /\ cl' = [cl EXCEPT !.called = 1,
                        !.first = convlimcalc(cl.d, cl.Ss, cl.epslim)]
    /\ pc' = "convlim2"
    /\ UNCHANGED tblVars
    /\ UNCHANGED <<macdcopt, busdc, convdc, slackdc, droopdc, slackdroopdc,
                   noslackbdc, it, converged, Ps, Ps_old, ii, limviol, SsL,
                   dSiimaxi, dcconverged, convergedslackdroop, cflag, acnet>>

\* convlim called again with the same arguments and the point it returned
ConvLimSecond ==
    /\ pc = "convlim2"
    /\ cl' = [cl EXCEPT !.called = 2,
                        !.second = convlimcalc(cl.d, [P |-> cl.first.P,
                                                      Q |-> cl.first.Q],
                                               cl.epslim)]
    /\ pc' = "convlimdone"
    /\ UNCHANGED tblVars
    /\ UNCHANGED <<macdcopt, busdc, convdc, slackdc, droopdc, slackdroopdc,
                   noslackbdc, it, converged, Ps, Ps_old, ii, limviol, SsL,
                   dSiimaxi, dcconverged, convergedslackdroop, cflag, acnet>>

NextLim ==
    \/ ConvLimFirst
    \/ ConvLimSecond

SpecLim == InitLim /\ [][NextLim]_vars

C19_WitnessCorner ==
    /\ pc = "convlimdone"
    /\ cl.first.viol = 2
    /\ cl.first.P # cl.Ss.P
    /\ cl.first.Q # cl.Ss.Q
    /\ cl.second.viol = 0

\* C20: runacdcpf leaves the DC tables of the caller's case dict as they were
\* passed, also when a converter is out of service
C20_CallerTablesUnchanged ==
    pc \in {"done", "error"} => /\ caller.busdc = casein.busdc
                                /\ caller.convdc = casein.convdc
                                /\ caller.branchdc = casein.branchdc

\* ------------------------------------------------------------ makeYbusdc
\* sum of f[1..m]
RECURSIVE SumTo(_, _)
SumTo(f, m) == IF m = 0 THEN 0 ELSE f[m] + SumTo(f, m - 1)

\* makeYbusdc.py:46  branch admittance 1/R, in units in which the enumerated
\* resistances have whole admittances
Ys(brdc, k) == 2 \div brdc[k].BRDC_R

\* makeYbusdc.py:59, 61  connection matrices (m x n)
Cf(brdc, n) ==
    [k \in 1..Len(brdc) |-> [b \in 1..n |-> IF brdc[k].F_BUSDC = b THEN 1 ELSE 0]]

Ct(brdc, n) ==
    [k \in 1..Len(brdc) |-> [b \in 1..n |-> IF brdc[k].T_BUSDC = b THEN 1 ELSE 0]]

\* variant in which the off-diagonal branch admittance has the sign of Yff
Yfdcsamesign(brdc, n) ==
    [k \in 1..Len(brdc) |->
        [b \in 1..n |-> (IF brdc[k].F_BUSDC = b THEN Ys(brdc, k) ELSE 0)
                      + (IF brdc[k].T_BUSDC = b THEN Ys(brdc, k) ELSE 0)]]

\* makeYbusdc.py:48-50, 67-70  Yff at the from bus and Yft at the to bus of
\* each branch; entries with the same indices are added up
Yfdc(brdc, n) ==
    [k \in 1..Len(brdc) |->
        [b \in 1..n |-> (IF brdc[k].F_BUSDC = b THEN Ys(brdc, k) ELSE 0)
                      + (IF brdc[k].T_BUSDC = b THEN 0 - Ys(brdc, k) ELSE 0)]]

\* makeYbusdc.py:48-51, 72-75
Ytdc(brdc, n) ==
    [k \in 1..Len(brdc) |->
        [b \in 1..n |-> (IF brdc[k].F_BUSDC = b THEN 0 - Ys(brdc, k) ELSE 0)
                      + (IF brdc[k].T_BUSDC = b THEN Ys(brdc, k) ELSE 0)]]

\* makeYbusdc.py:42-78  Ybusdc = Cf' * Yfdc + Ct' * Ytdc
makeYbusdc(bd, brdc) ==
    LET n == Len(bd)
        m == Len(brdc)
    IN  [a \in 1..n |-> [b \in 1..n |->
            SumTo([k \in 1..m |-> Cf(brdc, n)[k][a] * Yfdc(brdc, n)[k][b]
                                + Ct(brdc, n)[k][a] * Ytdc(brdc, n)[k][b]], m)]]

\* DC networks for makeYbusdc: one bus more than NBusDC, up to NBrchDC
\* branches between any two buses, resistances 1, 2 or -1
YBuses == 1..(NBusDC + 1)

YBranchRows == [F_BUSDC : YBuses, T_BUSDC : YBuses, BRDC_R : {-1, 1, 2}]

YBranchTables == UNION {[1..m -> YBranchRows] : m \in 0..NBrchDC}

InitY ==
    /\ pc = "makeYbusdc"
    /\ LoopIdle
    /\ outg = NoOutages
    /\ i2e = NoNumbering
    /\ \E brdc \in YBranchTables :
         casein = [NoTables EXCEPT !.busdc = [k \in YBuses |-> [BUSDC_I |-> k]],
                                   !.branchdc = brdc]
    /\ tab = casein
    /\ caller = casein

\* runacdcpf.py:288, the call of makeYbusdc
MakeYbusdc ==
    /\ pc = "makeYbusdc"
    /\ cl' = [called |-> 1, Ybusdc |-> makeYbusdc(tab.busdc, tab.branchdc)]
    /\ pc' = "ybusdone"
    /\ UNCHANGED tblVars
    /\ UNCHANGED <<macdcopt, busdc, convdc, slackdc, droopdc, slackdroopdc,
                   noslackbdc, it, converged, Ps, Ps_old, ii, limviol, SsL,
                   dSiimaxi, dcconverged, convergedslackdroop, cflag, acnet>>

NextY == MakeYbusdc

SpecY == InitY /\ [][NextY]_vars

\* C21: for every branch list with non-zero resistances, parallel branches
\* and buses without branch included, Ybusdc is n x n, symmetric, and each of
\* its rows sums to zero
C21_YbusdcSymmetricZeroRowSum ==
    pc = "ybusdone" =>
        LET n == Len(tab.busdc)
            Y == cl.Ybusdc
        IN  /\ DOMAIN Y = 1..n
            /\ \A a \in 1..n :
                 /\ DOMAIN Y[a] = 1..n
                 /\ SumTo(Y[a], n) = 0
                 /\ \A b \in 1..n : Y[a][b] = Y[b][a]

\* the matrix of a network with two parallel branches and a bus that no
\* branch touches
C21_Witness ==
    /\ pc = "ybusdone"
    /\ \E j, k \in 1..Len(tab.branchdc) :
         /\ j # k
         /\ tab.branchdc[j].F_BUSDC = tab.branchdc[k].T_BUSDC
         /\ tab.branchdc[j].T_BUSDC = tab.branchdc[k].F_BUSDC
         /\ tab.branchdc[j].F_BUSDC # tab.branchdc[j].T_BUSDC
         /\ tab.branchdc[j].BRDC_R = 1
         /\ tab.branchdc[k].BRDC_R = 2
    /\ \E a \in YBuses : \A b \in YBuses : cl.Ybusdc[a][b] = 0
    /\ \E a \in YBuses : cl.Ybusdc[a][a] = 3

\* ------------------------------------------------- ext2intpu and int2extpu
\* The per unit quantities are rational numbers [n, d] in lowest terms with
\* d > 0; products and quotients are exact.
RECURSIVE GCD(_, _)
GCD(a, b) == IF b = 0 THEN a ELSE GCD(b, a % b)

Q(n, d) ==
    LET g == GCD(Abs(n), Abs(d))
        sg == IF d < 0 THEN -1 ELSE 1
    IN  [n |-> sg * (n \div g), d |-> sg * (d \div g)]

QMul(a, b) == Q(a.n * b.n, a.d * b.d)

QDiv(a, b) == Q(a.n * b.d, a.d * b.n)

QInt(k) == [n |-> k, d |-> 1]

\* ext2intpu.py:54-59
ext2intpuconv(row, baseMVA, baseMVAac) ==
    [row EXCEPT
        !.RTF   = QDiv(QMul(@, QInt(baseMVA)), QInt(baseMVAac)),
        !.XTF   = QDiv(QMul(@, QInt(baseMVA)), QInt(baseMVAac)),
        !.BF    = QDiv(QMul(@, QInt(baseMVA)), QInt(baseMVAac)),
        !.RCONV = QDiv(QMul(@, QInt(baseMVA)), QInt(baseMVAac)),
        !.XCONV = QDiv(QMul(@, QInt(baseMVA)), QInt(baseMVAac)),
        !.ICMAX = QDiv(QMul(@, QInt(baseMVAac)), QInt(baseMVA))]

\* ext2intpu.py:66-68
ext2intpubus(row, baseMVA, baseMVAdc) ==
    LET baseR_busdc == QDiv(QInt(row.BASE_KVDC * row.BASE_KVDC), QInt(baseMVAdc))
        baseR_busdc2ac == QDiv(QInt(row.BASE_KVDC * row.BASE_KVDC), QInt(baseMVA))
    IN  [row EXCEPT !.CDC = QMul(QDiv(@, baseR_busdc), baseR_busdc2ac)]

\* ext2intpu.py:78-84  (bd is the bus matrix after line 68)
ext2intpubrch(row, bd, baseMVA, baseMVAdc) ==
    LET baseKVDC_brch == bd[row.F_BUSDC].BASE_KVDC
        baseR_brchdc == QDiv(QInt(baseKVDC_brch * baseKVDC_brch), QInt(baseMVAdc))
        baseR_brchdc2ac == QDiv(QInt(baseKVDC_brch * baseKVDC_brch), QInt(baseMVA))
    IN  [row EXCEPT
            !.BRDC_R = QDiv(QMul(@, baseR_brchdc), baseR_brchdc2ac),
            !.BRDC_L = QDiv(QMul(@, baseR_brchdc), baseR_brchdc2ac),
            !.BRDC_C = QMul(QDiv(@, baseR_brchdc), baseR_brchdc2ac)]

\* ext2intpu.py:72-76  the base voltages at the two ends of a DC branch differ
ext2intpuraises(t) ==
    \E k \in DOMAIN t.branchdc :
        t.busdc[t.branchdc[k].F_BUSDC].BASE_KVDC
            # t.busdc[t.branchdc[k].T_BUSDC].BASE_KVDC

\* ext2intpu.py:54-86; the matrices are written in place, so that the
\* converter and bus matrices are already converted when line 76 raises
ext2intpu(t) ==
    LET cd == [k \in DOMAIN t.convdc |->
                  ext2intpuconv(t.convdc[k], t.baseMVA, t.baseMVAac)]
        bd == [k \in DOMAIN t.busdc |->
                  ext2intpubus(t.busdc[k], t.baseMVA, t.baseMVAdc)]
    IN  [t EXCEPT
            !.convdc = cd,
            !.busdc = bd,
            !.branchdc = IF ext2intpuraises(t) THEN @
                         ELSE [k \in DOMAIN @ |->
                                  ext2intpubrch(@[k], bd, t.baseMVA, t.baseMVAdc)]]

\* variant that scales ICMAX by the factor of the impedances
int2extpuconvsamefactor(row, baseMVA, baseMVAac) ==
    [row EXCEPT
        !.RTF   = QDiv(QMul(@, QInt(baseMVAac)), QInt(baseMVA)),
        !.XTF   = QDiv(QMul(@, QInt(baseMVAac)), QInt(baseMVA)),
        !.BF    = QDiv(QMul(@, QInt(baseMVAac)), QInt(baseMVA)),
        !.RCONV = QDiv(QMul(@, QInt(baseMVAac)), QInt(baseMVA)),
        !.XCONV = QDiv(QMul(@, QInt(baseMVAac)), QInt(baseMVA)),
        !.ICMAX = QDiv(QMul(@, QInt(baseMVAac)), QInt(baseMVA))]

\* int2extpu.py:52-57
int2extpuconv(row, baseMVA, baseMVAac) ==
    [row EXCEPT
        !.RTF   = QDiv(QMul(@, QInt(baseMVAac)), QInt(baseMVA)),
        !.XTF   = QDiv(QMul(@, QInt(baseMVAac)), QInt(baseMVA)),
        !.BF    = QDiv(QMul(@, QInt(baseMVAac)), QInt(baseMVA)),
        !.RCONV = QDiv(QMul(@, QInt(baseMVAac)), QInt(baseMVA)),
        !.XCONV = QDiv(QMul(@, QInt(baseMVAac)), QInt(baseMVA)),
        !.ICMAX = QDiv(QMul(@, QInt(baseMVA)), QInt(baseMVAac))]

\* int2extpu.py:64-66
int2extpubus(row, baseMVA, baseMVAdc) ==
    LET baseR_busdc == QDiv(QInt(row.BASE_KVDC * row.BASE_KVDC), QInt(baseMVAdc))
        baseR_busdc2ac == QDiv(QInt(row.BASE_KVDC * row.BASE_KVDC), QInt(baseMVA))
    IN  [row EXCEPT !.CDC = QMul(QDiv(@, baseR_busdc2ac), baseR_busdc)]

\* int2extpu.py:69-75
int2extpubrch(row, bd, baseMVA, baseMVAdc) ==
    LET baseKVDC_brch == bd[row.F_BUSDC].BASE_KVDC
        baseR_brchdc == QDiv(QInt(baseKVDC_brch * baseKVDC_brch), QInt(baseMVAdc))
        baseR_brchdc2ac == QDiv(QInt(baseKVDC_brch * baseKVDC_brch), QInt(baseMVA))
    IN  [row EXCEPT
            !.BRDC_R = QDiv(QMul(@, baseR_brchdc2ac), baseR_brchdc),
            !.BRDC_L = QDiv(QMul(@, baseR_brchdc2ac), baseR_brchdc),
            !.BRDC_C = QMul(QDiv(@, baseR_brchdc2ac), baseR_brchdc)]

\* int2extpu.py:52-77
int2extpu(t) ==
    LET bd == [k \in DOMAIN t.busdc |->
                  int2extpubus(t.busdc[k], t.baseMVA, t.baseMVAdc)]
    IN  [t EXCEPT
            !.convdc = [k \in DOMAIN @ |->
                           int2extpuconv(@[k], t.baseMVA, t.baseMVAac)],
            !.busdc = bd,
            !.branchdc = [k \in DOMAIN @ |->
                             int2extpubrch(@[k], bd, t.baseMVA, t.baseMVAdc)]]

\* base powers and base voltages: positive; per unit values: zero, a whole
\* number and a negative fraction
PuBases == 1..(NBusDC + 1)

PuKV == {1, 2}

PuVals == {Q(0, 1), Q(1, 1), Q(-1, 2)}

\* state at runacdcpf.py:151: NBusDC DC buses, one converter, one DC branch
InitPU ==
    /\ pc = "ext2intpu"
    /\ LoopIdle
    /\ outg = NoOutages
    /\ i2e = NoNumbering
    /\ \E bM, bMac, bMdc \in PuBases, kv \in [BusesDC -> PuKV],
          x, y \in PuVals, f, t \in BusesDC :
         casein =
           [bus |-> << >>, gen |-> << >>, branch |-> << >>,
            baseMVA |-> bM, baseMVAac |-> bMac, baseMVAdc |-> bMdc,
            busdc |-> [k \in BusesDC |->
                         [BUSDC_I |-> k, BUSAC_I |-> k, GRIDDC |-> 1, PDC |-> k,
                          VDC |-> 1, BASE_KVDC |-> kv[k],
                          CDC |-> IF k = 1 THEN x ELSE y]],
            convdc |-> <<[CONV_BUS |-> 1, CONVTYPE_DC |-> 2, CONVTYPE_AC |-> 1,
                          PCONV |-> 1, QCONV |-> 1, VCONV |-> 1,
                          RTF |-> x, XTF |-> y, BF |-> x, RCONV |-> y,
                          XCONV |-> x, ICMAX |-> y, CONVSTATUS |-> 1,
                          DROOP |-> 0, PDCSET |-> 1, VDCSET |-> 1]>>,
            branchdc |-> <<[F_BUSDC |-> f, T_BUSDC |-> t, BRDC_R |-> x,
                            BRDC_L |-> y, BRDC_C |-> IF x = y THEN Q(1, 1) ELSE x,
                            BRDC_STATUS |-> 1]>>]
    /\ tab = casein
    /\ caller = casein

\* runacdcpf.py:151-153; cl keeps the internal per unit matrices
Ext2IntPU ==
    /\ pc = "ext2intpu"
    /\ tab' = ext2intpu(tab)
    /\ cl' = [called |-> 1, int |-> tab']
    /\ pc' = IF ext2intpuraises(tab) THEN "raised" ELSE "int2extpu"
    /\ UNCHANGED <<casein, outg, i2e, caller>>
    /\ UNCHANGED <<macdcopt, busdc, convdc, slackdc, droopdc, slackdroopdc,
                   noslackbdc, it, converged, Ps, Ps_old, ii, limviol, SsL,
                   dSiimaxi, dcconverged, convergedslackdroop, cflag, acnet>>

\* runacdcpf.py:601-603
Int2ExtPU ==
    /\ pc = "int2extpu"
    /\ tab' = int2extpu(tab)
    /\ pc' = "pudone"
    /\ UNCHANGED <<casein, outg, i2e, caller>>
    /\ UNCHANGED <<macdcopt, busdc, convdc, slackdc, droopdc, slackdroopdc,
                   noslackbdc, it, converged, Ps, Ps_old, ii, limviol, SsL,
                   dSiimaxi, dcconverged, convergedslackdroop, cflag, acnet, cl>>

NextPU == Ext2IntPU \/ Int2ExtPU

SpecPU == InitPU /\ [][NextPU]_vars

\* the columns that the per unit conversions are meant to rescale
PuColumns == {"RTF", "XTF", "BF", "RCONV", "XCONV", "ICMAX", "CDC",
              "BRDC_R", "BRDC_L", "BRDC_C"}

\* tables t and u agree in every column other than the rescaled ones
SameOtherColumns(t, u) ==
    /\ t.baseMVA = u.baseMVA /\ t.baseMVAac = u.baseMVAac
    /\ t.baseMVAdc = u.baseMVAdc
    /\ \A m \in {"busdc", "convdc", "branchdc"} :
         /\ DOMAIN t[m] = DOMAIN u[m]
         /\ \A k \in DOMAIN t[m] :
              /\ DOMAIN t[m][k] = DOMAIN u[m][k]
              /\ \A c \in DOMAIN t[m][k] \ PuColumns : t[m][k][c] = u[m][k][c]

\* C22: int2extpu after ext2intpu with the same base powers restores RTF,
\* XTF, BF, RCONV, XCONV, ICMAX, CDC and the branch R, L, C, and neither
\* function changes another column
C22_PuRoundTrip ==
    /\ pc = "pudone" => tab = casein
    /\ pc \in {"int2extpu", "raised", "pudone"} =>
         SameOtherColumns(tab, casein) /\ SameOtherColumns(cl.int, casein)

\* a round trip with three different base powers in which the internal
\* values of converter, bus and branch columns differed from the external ones
C22_Witness ==
    /\ pc = "pudone"
    /\ tab.baseMVA # tab.baseMVAac
    /\ tab.baseMVA # tab.baseMVAdc
    /\ tab.baseMVAac # tab.baseMVAdc
    /\ cl.int.convdc[1].RTF # casein.convdc[1].RTF
    /\ cl.int.convdc[1].ICMAX # casein.convdc[1].ICMAX
    /\ cl.int.busdc[1].CDC # casein.busdc[1].CDC
    /\ cl.int.branchdc[1].BRDC_R # casein.branchdc[1].BRDC_R
    /\ cl.int.branchdc[1].BRDC_C # casein.branchdc[1].BRDC_C

\* ------------------------------------------------------------ dcnetworkpf
\* values of the options TOLDC and ITMAXDC (macdcopt[2], macdcopt[3]); the
\* voltage corrections are whole numbers, so only an all-zero correction
\* is below the tolerance
toldc == 1

itmaxdc == itmaxacdc

\* dcnetworkpf.py:65 (and 139, 144)  pol * Vdc * (Ybusdc @ Vdc), entry k
Pdccalc(Y, V, pol, k) ==
    pol * V[k] * SumTo([j \in DOMAIN V |-> Y[k][j] * V[j]], Len(V))

\* variant that applies the corrections of the reduced system to every bus
newtonupdateall(V, noslack, dVr) ==
    LET d == CHOOSE k \in noslack : TRUE
    IN  [k \in DOMAIN V |-> V[k] * (1 + dVr[IF k \in noslack THEN k ELSE d])]

\* dcnetworkpf.py:126  Vdc[noslack_idx] = Vdc[noslack_idx] * (1.0 + dVr)
newtonupdate(V, noslack, dVr) ==
    [k \in DOMAIN V |-> IF k \in noslack THEN V[k] * (1 + dVr[k]) ELSE V[k]]

\* dcnetworkpf.py:138-145  slack and droop bus powers from the voltages
outputupdate(P, Y, V, pol, slack, droop) ==
    [k \in DOMAIN P |-> IF k \in slack \cup droop
                        THEN 0 - Pdccalc(Y, V, pol, k) ELSE P[k]]

\* the DC network of the calls: a chain of the DC buses, every resistance 1
DcChain ==
    [k \in 1..(NBusDC - 1) |-> [F_BUSDC |-> k, T_BUSDC |-> k + 1, BRDC_R |-> 1]]

\* state at dcnetworkpf.py:56-57.  The arguments are those of
\* runacdcpf.py:495-497: noslack is the complement of slack (line 189) and the
\* droop buses are non-slack buses; cl holds arguments and vectors, it and
\* converged are the locals of dcnetworkpf.
InitDC ==
    /\ pc = "dcloop"
    /\ macdcopt = [LIMAC |-> 0, MULTSLACK |-> 0]
    /\ busdc = << >>
    /\ convdc = << >>
    /\ slackdc = {}
    /\ droopdc = {}
    /\ slackdroopdc = {}
    /\ noslackbdc = {}
    /\ it = 0
    /\ converged = FALSE
    /\ Ps = << >>
    /\ Ps_old = << >>
    /\ ii = 0
    /\ limviol = << >>
    /\ SsL = << >>
    /\ dSiimaxi = 0
    /\ dcconverged = FALSE
    /\ convergedslackdroop = FALSE
    /\ cflag = FALSE
    /\ acnet = NoACNet
    /\ TablesIdle
    /\ \E kind \in [BusesDC -> {"slack", "droop", "noslack"}],
          P \in [BusesDC -> PVals], pol \in {1, 2} :
         cl = [called |-> 1,
               Ybusdc |-> makeYbusdc([k \in BusesDC |-> [BUSDC_I |-> k]], DcChain),
               pol |-> pol,
               slack |-> {k \in BusesDC : kind[k] = "slack"},
               noslack |-> {k \in BusesDC : kind[k] # "slack"},
               droop |-> {k \in BusesDC : kind[k] = "droop"},
               Vdc0 |-> [k \in BusesDC |-> k], Pdc0 |-> P,
               Vdc |-> [k \in BusesDC |-> k], Pdc |-> P,
               printed |-> FALSE]

\* dcnetworkpf.py:60-130  one Newton iteration.  The solution dVr of the
\* reduced system (lines 65-123) is any vector of corrections; with no
\* non-slack bus the maximum of line 129 is taken over an empty vector, which
\* raises.
DcIterate ==
    /\ pc = "dcloop"
    /\ ~converged /\ it <= itmaxdc
    /\ it' = it + 1
    /\ IF cl.noslack = {}
       THEN /\ pc' = "raised"
            /\ UNCHANGED <<cl, converged>>
       ELSE \E dVr \in [cl.noslack -> (0 - MaxDev)..MaxDev] :
              /\ cl' = [cl EXCEPT !.Vdc = newtonupdate(@, cl.noslack, dVr)]
              /\ converged' = (Max({Abs(dVr[k]) : k \in cl.noslack}) < toldc)
              /\ pc' = pc
    /\ UNCHANGED tblVars
    /\ UNCHANGED <<macdcopt, busdc, convdc, slackdc, droopdc, slackdroopdc,
                   noslackbdc, Ps, Ps_old, ii, limviol, SsL, dSiimaxi,
                   dcconverged, convergedslackdroop, cflag, acnet>>

\* dcnetworkpf.py:60, 133-147  the loop is left, the message is printed if
\* not converged, the slack and droop powers are recomputed
DcReturn ==
    /\ pc = "dcloop"
    /\ ~(~converged /\ it <= itmaxdc)
    /\ cl' = [cl EXCEPT !.printed = ~converged,
                        !.Pdc = outputupdate(@, cl.Ybusdc, cl.Vdc, cl.pol,
                                             cl.slack, cl.droop)]
    /\ pc' = "dcreturned"
    /\ UNCHANGED tblVars
    /\ UNCHANGED <<macdcopt, busdc, convdc, slackdc, droopdc, slackdroopdc,
                   noslackbdc, it, converged, Ps, Ps_old, ii, limviol, SsL,
                   dSiimaxi, dcconverged, convergedslackdroop, cflag, acnet>>

NextDC == DcIterate \/ DcReturn

SpecDC == InitDC /\ [][NextDC]_vars

\* C23: dcnetworkpf never changes the voltage of a slack bus; on return the
\* powers of the buses that are neither slack nor droop are the input
\* values, and the slack and droop powers are those of the final voltages
C23_SlackVoltageAndPowerFrame ==
    /\ \A k \in cl.slack : cl.Vdc[k] = cl.Vdc0[k]
    /\ pc = "dcreturned" =>
         \A k \in BusesDC :
            IF k \in cl.slack \cup cl.droop
            THEN cl.Pdc[k] = 0 - Pdccalc(cl.Ybusdc, cl.Vdc, cl.pol, k)
            ELSE cl.Pdc[k] = cl.Pdc0[k]

\* a return with a slack bus, a non-slack bus whose voltage was changed and
\* a recomputed slack power that differs from the power passed in
C23_Witness ==
    /\ pc = "dcreturned"
    /\ \E k \in cl.slack : cl.Pdc[k] # cl.Pdc0[k]
    /\ \E k \in cl.noslack \ cl.droop :
         cl.Vdc[k] # cl.Vdc0[k] /\ cl.Pdc[k] = cl.Pdc0[k] /\ cl.Pdc[k] # 0

\* C24: dcnetworkpf performs at most itmax Newton iterations, and without a
\* converged iteration it reports that and returns without raising
C24_AtMostItmaxNewtonIterations ==
    /\ it <= itmaxdc
    /\ pc # "raised"
    /\ pc = "dcreturned" /\ ~converged => cl.printed

\* --------------------------------------------------------- calcslackdroop
\* value of the option ITMAXSLACKDROOPINT (macdcopt[7])
itmaxslackdroopint == itmaxacdc

\* calcslackdroop.py:48-51  index blocks of the 4*ng system (0-based):
\* block 1 holds the equations Pcspec - Pc and the corrections of Vca,
\* block 2 Qsspec - Qs and Vfa, block 3 -F1 and Vcm, block 4 -F2 and Vfm
i1(ng) == [j \in 1..ng |-> j - 1]

i2(ng) == [j \in 1..ng |-> ng + j - 1]

i3(ng) == [j \in 1..ng |-> 2 * ng + j - 1]

i4(ng) == [j \in 1..ng |-> 3 * ng + j - 1]

\* calcslackdroop.py:67-68  positions without and with transformer (1-based)
tf0i(Ztf) == ascending({j \in DOMAIN Ztf : Ztf[j] = 0})

tf1i(Ztf) == ascending({j \in DOMAIN Ztf : Ztf[j] # 0})

\* calcslackdroop.py:169  rows_to_keep = [i1, i2[tf1i], i3[tf1i], i4[tf1i]]
rows_to_keep(Ztf) ==
    LET ng == Len(Ztf)
    IN  i1(ng) \o rows(i2(ng), tf1i(Ztf)) \o rows(i3(ng), tf1i(Ztf))
               \o rows(i4(ng), tf1i(Ztf))

\* calcslackdroop.py:170  cols_to_keep = rows_to_keep
cols_to_keep(Ztf) == rows_to_keep(Ztf)

\* calcslackdroop.py:182-183  corr = zeros(4*ng); corr[rows_to_keep] = corr1
corrections(Ztf, corr1) ==
    [u \in 0..(4 * Len(Ztf) - 1) |->
        IF \E r \in 1..Len(cols_to_keep(Ztf)) : cols_to_keep(Ztf)[r] = u
        THEN corr1[CHOOSE r \in 1..Len(cols_to_keep(Ztf)) : cols_to_keep(Ztf)[r] = u]
        ELSE 0]

\* state at calcslackdroop.py:76-78: ng slack/droop converters, transformer
\* impedances 0 (no transformer), 1 or 2, voltages in whole units
InitSD ==
    /\ pc = "sdloop"
    /\ macdcopt = [LIMAC |-> 0, MULTSLACK |-> 0]
    /\ busdc = << >>
    /\ convdc = << >>
    /\ slackdc = {}
    /\ droopdc = {}
    /\ slackdroopdc = {}
    /\ noslackbdc = {}
    /\ it = 0
    /\ converged = FALSE
    /\ Ps = << >>
    /\ Ps_old = << >>
    /\ ii = 0
    /\ limviol = << >>
    /\ SsL = << >>
    /\ dSiimaxi = 0
    /\ dcconverged = FALSE
    /\ convergedslackdroop = FALSE
    /\ cflag = FALSE
    /\ acnet = NoACNet
    /\ TablesIdle
    /\ \E ng \in 1..NBusDC : \E Ztf \in [1..ng -> {0, 1, 2}] :
         cl = [called |-> 1, Ztf |-> Ztf, solved |-> FALSE,
               rows_to_keep |-> << >>, cols_to_keep |-> << >>,
               Vca |-> [j \in 1..ng |-> 0], Vfa |-> [j \in 1..ng |-> 0],
               Vcm |-> [j \in 1..ng |-> 1], Vfm |-> [j \in 1..ng |-> 1],
               printed |-> FALSE]

\* calcslackdroop.py:81-189  one iteration: either the masked mismatch is
\* below the tolerance (cflag, break) or the reduced system is solved and the
\* voltages are corrected.  The solution corr1 of the reduced system is any
\* vector of corrections 0..MaxDev.
SdIterate ==
    /\ pc = "sdloop"
    /\ ~converged /\ it < itmaxslackdroopint
    /\ it' = it + 1
    /\ \/ /\ cflag' = TRUE
          /\ pc' = "sdbreak"
          /\ UNCHANGED cl
       \/ \E corr1 \in [1..Len(rows_to_keep(cl.Ztf)) -> 0..MaxDev] :
            LET ng == Len(cl.Ztf)
                corr == corrections(cl.Ztf, corr1)
            IN  /\ cl' = [cl EXCEPT
                            !.solved = TRUE,
                            !.rows_to_keep = rows_to_keep(cl.Ztf),
                            !.cols_to_keep = cols_to_keep(cl.Ztf),
                            !.Vca = [j \in 1..ng |-> @[j] + corr[i1(ng)[j]]],
                            !.Vfa = [j \in 1..ng |-> @[j] + corr[i2(ng)[j]]],
                            !.Vcm = [j \in 1..ng |-> @[j] * (1 + corr[i3(ng)[j]])],
                            !.Vfm = [j \in 1..ng |-> @[j] * (1 + corr[i4(ng)[j]])]]
                /\ pc' = pc
                /\ UNCHANGED cflag
    /\ UNCHANGED tblVars
    /\ UNCHANGED <<macdcopt, busdc, convdc, slackdc, droopdc, slackdroopdc,
                   noslackbdc, converged, Ps, Ps_old, ii, limviol, SsL,
                   dSiimaxi, dcconverged, convergedslackdroop, acnet>>

\* calcslackdroop.py:81, 139, 192-214  the loop is left by its test or by the
\* break; the message is printed without cflag
SdReturn ==
    /\ \/ pc = "sdbreak"
       \/ pc = "sdloop" /\ ~(~converged /\ it < itmaxslackdroopint)
    /\ cl' = [cl EXCEPT !.printed = ~cflag]
    /\ pc' = "sdreturned"
    /\ UNCHANGED tblVars
    /\ UNCHANGED <<macdcopt, busdc, convdc, slackdc, droopdc, slackdroopdc,
                   noslackbdc, it, converged, Ps, Ps_old, ii, limviol, SsL,
                   dSiimaxi, dcconverged, convergedslackdroop, cflag, acnet>>

NextSD == SdIterate \/ SdReturn

SpecSD == InitSD /\ [][NextSD]_vars

\* index u is among the kept indices
Kept(keep, u) == \E r \in 1..Len(keep) : keep[r] = u

\* C25: in the reduced Newton system a converter with Ztf = 0 has neither
\* its two filter voltage unknowns (Vfa, Vfm) nor its two filter bus
\* equations (F1, F2), and keeps its converter voltage unknowns (Vca, Vcm)
\* and its P and Q equations; a converter with Ztf # 0 keeps all four
\* unknowns and all four equations
C25_ReducedSystemOfTransformerless ==
    cl.called = 1 /\ pc \in {"sdloop", "sdbreak", "sdreturned"} /\ cl.solved =>
        LET ng == Len(cl.Ztf)
        IN  \A j \in 1..ng :
              IF cl.Ztf[j] = 0
              THEN /\ ~Kept(cl.cols_to_keep, i2(ng)[j])
                   /\ ~Kept(cl.cols_to_keep, i4(ng)[j])
                   /\ ~Kept(cl.rows_to_keep, i3(ng)[j])
                   /\ ~Kept(cl.rows_to_keep, i4(ng)[j])
                   /\ Kept(cl.cols_to_keep, i1(ng)[j])
                   /\ Kept(cl.cols_to_keep, i3(ng)[j])
                   /\ Kept(cl.rows_to_keep, i1(ng)[j])
                   /\ Kept(cl.rows_to_keep, i2(ng)[j])
              ELSE \A u \in {i1(ng)[j], i2(ng)[j], i3(ng)[j], i4(ng)[j]} :
                     Kept(cl.cols_to_keep, u) /\ Kept(cl.rows_to_keep, u)

\* ------------------------------------- further properties of the iteration
\* in-service converters of grid g that are not DC slack converters
NonSlackConverters(g) ==
    {k \in BusesDC : /\ busdc[k].GRIDDC = g
                     /\ convdc[k].CONV_BUS # 0
                     /\ k \notin slackdc}

\* C26: with LIMAC = 1 the limit check of a grid passes every in-service
\* converter of the grid that is not a DC slack converter to convlim, the
\* converter at the first internal DC bus included
C26_EveryNonSlackConverterEvaluated ==
    pc = "limcheck" =>
        /\ macdcopt.LIMAC = 1
        /\ \A k \in NonSlackConverters(ii) : k \in cdcii(ii)

\* runacdcpf.py:392, 418, 438-442: limviol is cleared at the start of the
\* limit check of an iteration, and the limit check of a grid replaces a
\* setpoint exactly when convlim returned a code 1 or 2 in that grid
EnforcedInIteration == \E k \in BusesDC : limviol[k] \in {1, 2}

\* C27: a run that returns converged = True enforced no limit in its last
\* outer iteration: no P or Q setpoint was replaced and no control mode was
\* changed after the AC solve of that iteration
C27_ConvergedWithoutEnforcement ==
    pc = "done" /\ converged => ~EnforcedInIteration

\* C28: a run that returns converged = True had, in its last outer
\* iteration, a converged DC network solve, a converged slack/droop loss
\* iteration and converged calcslackdroop calls
C28_ConvergedOnlyWithInnerConvergence ==
    pc = "done" /\ converged =>
        dcconverged /\ convergedslackdroop /\ cflag

\* C29: from the first outer iteration on the control modes only move
\* downward: PV may become PQ but PQ never PV, droop may become no-slack but
\* no converter becomes droop or slack, a slack converter stays slack, and
\* the droop set of the DC solve never gains a member
C29_ModesOnlyMoveDownward ==
    [][(pc \in OtherStages \cup {"limcheck"}) =>
         /\ \A k \in BusesDC :
              /\ convdc'[k].CONVTYPE_AC # convdc[k].CONVTYPE_AC =>
                   convdc[k].CONVTYPE_AC = "PV" /\ convdc'[k].CONVTYPE_AC = "PQ"
              /\ convdc'[k].CONVTYPE_DC # convdc[k].CONVTYPE_DC =>
                   convdc[k].CONVTYPE_DC = "droop"
                       /\ convdc'[k].CONVTYPE_DC = "noslack"
         /\ droopdc' \subseteq droopdc
         /\ slackdc' = slackdc]_vars

\* the second outer iteration of a run whose first iteration took the droop
\* control from a converter, next to a slack converter and a PQ converter
\* that kept their modes
C29_Witness ==
    /\ pc = "dcsolve"
    /\ it = 2
    /\ droopdc = {}
    /\ \E k \in BusesDC : /\ convdc[k].CONVTYPE_DC = "noslack"
                          /\ k \in noslackbdc
                          /\ limviol[k] = 0
                          /\ convdc[k].CONVTYPE_AC = "PQ"
                          /\ convdc[k].QCONV = 0
    /\ \E k \in slackdc : convdc[k].CONVTYPE_DC = "slack"

\* ------------------------------------------- properties of the renumbering
\* AC buses that the DC bus table names after the converter outages
AttachedACBuses == {caller.busdc[j].BUSAC_I : j \in 1..Len(caller.busdc)} \ {0}

\* C30: after ext2intdc and ext2intac the DC buses are numbered 1..n in row
\* order and the AC bus of internal DC bus k, attached or borrowed, has the
\* internal AC number k; after the sorting row k of the bus table, of busdc
\* and of the expanded converter matrix belong to the same station: the DC bus
\* with the external number i2edc[k], the AC bus it names (or a borrowed AC
\* bus that no DC bus names) and the converter at that DC bus, if any
C30_RowsOfOneStation ==
    /\ pc \in {"sort", "solve"} =>
         \A k \in 1..Len(tab.busdc) :
            /\ tab.busdc[k].BUSDC_I = k
            /\ tab.busdc[k].BUSAC_I = k
            /\ \E j \in 1..Len(caller.busdc) :
                 /\ caller.busdc[j].BUSDC_I = i2e.i2edc[k]
                 /\ IF caller.busdc[j].BUSAC_I # 0
                    THEN i2e.i2eac[k] = caller.busdc[j].BUSAC_I
                    ELSE i2e.i2eac[k] \notin AttachedACBuses
    /\ pc = "solve" =>
         /\ \A k \in 1..Len(tab.bus) : tab.bus[k].BUS_I = k
         /\ \A k \in 1..Len(tab.busdc) :
              LET row == expandconv(tab.convdc, Len(tab.busdc))[k]
              IN  /\ row.CONV_BUS \in {0, k}
                  /\ row.CONV_BUS = 0 <=>
                       ~\E i \in 1..Len(tab.convdc) : tab.convdc[i].CONV_BUS = k

\* sorted tables of a case with a borrowed AC bus, a DC bus without
\* converter in service and DC and AC numbers that the renumbering changed
C30_Witness ==
    /\ pc = "solve"
    /\ Len(i2e.acdmbus) > 0
    /\ \E k \in 1..Len(tab.busdc) : i2e.i2edc[k] # k
    /\ \E k \in 1..Len(tab.bus) : i2e.i2eac[k] # k
    /\ \E k \in 1..Len(tab.busdc) :
         expandconv(tab.convdc, Len(tab.busdc))[k].CONV_BUS = 0
    /\ \E k \in 1..Len(tab.busdc) :
         expandconv(tab.convdc, Len(tab.busdc))[k].CONV_BUS = k

====
